---- MODULE Spec2Model ----
(***************************************************************************)
(* Verification model of taoli.py: the token-bucket RateLimiter, the       *)
(* resilient fetcher make_rate_limited_request, the TTL cache APICache,    *)
(* the cached decorator, the status collector (its request path and its    *)
(* records), the arbitrage scanner find_arbitrage_opportunities with the   *)
(* cost model calculate_arbitrage_cost and its refinement                  *)
(* refine_cost_with_lifi, the token check check_token_legitimacy, the      *)
(* monitor loop run_cli_monitor_with_alerts and the notification quota of  *)
(* send_all_notifications.                                                 *)
(*                                                                         *)
(* Time.  time.time() is the variable now, a monotonic clock counted in    *)
(* ticks; TicksPerInterval ticks make one min_interval = 1/requests_per_   *)
(* second of the limiter.  Token amounts are counted in units of           *)
(* 1/TicksPerInterval token, so that "elapsed * requests_per_second" is    *)
(* exactly the number of elapsed ticks and 1.0 token is OneToken units.    *)
(* Arithmetic is exact (the floating-point rounding of the source is not   *)
(* modelled).                                                              *)
(***************************************************************************)
EXTENDS Integers, Sequences, FiniteSets, TLC

\* ---------------------------------------------------------------- bounds
MaxTime == 3             \* ticks after creation at which the clock stops unless a sleeper waits
MaxCalls == 1            \* direct acquire calls started by a thread
MaxBurst == 1            \* largest burst_size given to RateLimiter.__init__
MaxRetries == 1          \* largest max_retries given to make_rate_limited_request
TicksPerInterval == 2    \* clock resolution: ticks per min_interval

\* ------------------------------------------------------ program constants
API_RATE_LIMIT_BACKOFF_FACTOR == 2
API_RATE_LIMIT_MAX_RETRY_DELAY == 60
base_delay == 1

\* thread 1 runs make_rate_limited_request, thread 2 calls acquire directly
Fetchers == {1}
Acquirers == {2}
Threads == Fetchers \cup Acquirers
NoOwner == 0
OneToken == TicksPerInterval
min_interval == TicksPerInterval
\* the limiter is constructed with requests_per_second = 1 per second, so one
\* second of a backoff delay is one min_interval
TicksPerSecond == TicksPerInterval
CreationTime == min_interval

Min(a, b) == IF a <= b THEN a ELSE b

RECURSIVE Pow(_, _)
Pow(b, e) == IF e <= 0 THEN 1 ELSE b * Pow(b, e - 1)

VARIABLES
  now,                \* time.time()
  burst_size,         \* RateLimiter.burst_size
  tokens,             \* RateLimiter.tokens (token units)
  last_refill_time,   \* RateLimiter.last_refill_time
  last_request_time,  \* RateLimiter.last_request_time
  total_requests,     \* RateLimiter.total_requests
  rate_limited_count, \* RateLimiter.rate_limited_count
  lock,               \* RateLimiter.lock: owner thread or NoOwner
  pc,                 \* per thread: position in acquire / make_rate_limited_request
  wait,               \* per thread: the wait argument of the running acquire
  caller,             \* per thread: "none", "direct" (acquire called directly) or "fetch"
  acq_result,         \* per thread: "none", "granted" (True) or "limited" (False)
  slept,              \* per thread: the running/last acquire went through time.sleep
  wake,               \* per thread: earliest clock value at which its sleep returns
  calls,              \* per thread: calls started so far
  granted,            \* number of acquire calls that returned True
  retry_count,        \* per thread: make_rate_limited_request's retry_count
  max_retries,        \* per thread: make_rate_limited_request's max_retries argument
  resp,               \* per thread: outcome of the last requests.get of the call
  delay,              \* per thread: the last backoff wait_time, in seconds
  sent,               \* per thread: requests.get calls made by the running/last call
  result,             \* per thread: how the last call ended, and with what failure
  rl_tmp,             \* per thread: value read by the unlocked "rate_limited_count += 1"
  d_max_retries,      \* 429 loop: max_retries of the call
  d_retry_count,      \* 429 loop: retry_count
  d_header,           \* 429 loop: Retry-After header of the last 429 response
  d_used_count,       \* 429 loop: retry_count at the time the last wait_time was computed
  d_wait_time,        \* 429 loop: the wait_time last slept, in seconds
  d_slept,            \* 429 loop: a 429 response has been answered by a sleep
  cache,              \* APICache._cache: key -> CacheEntry
  hit_count,          \* APICache._hit_count
  miss_count,         \* APICache._miss_count
  got,                \* the last APICache.get since the last set/clear: key, result, time
  stored,             \* per key: value, time and ttl of the last APICache.set
  n_configs,          \* len(configs) of fetch_all_stable_status
  cfg_pc,             \* per config: position of _fetch_single_stable_status
  cfg_attempt,        \* per config: attempt of get_dex_price_and_stable_token
  cfg_sent,           \* per config: requests sent by its get_dex_price_and_stable_token
  cfg_last,           \* per config: the outcome of the last of these requests
  cfg_wake,           \* per config: earliest clock value at which its retry sleep returns
  cfg_records,        \* per config: number of records it contributed
  dex_sent,           \* requests sent to the price oracle by the collector
  w_pc,               \* per worker: position in cached.wrapper / APICache.get
  w_key,              \* per worker: cache_key of the running call
  w_entry,            \* per worker: the entry read by "entry = self._cache.get(key)"
  w_deleted,          \* per worker: what its last "del self._cache[key]" removed: "none", "expired", "fresh"
  w_result,           \* per worker: result of the wrapped function in the running call
  w_out,              \* per worker: how the last call ended and what it returned
  w_calls,            \* per worker: calls of the wrapped function started so far
  invoked,            \* per key: invocations of the wrapped function
  s_n,                \* len(configs) of fetch_all_stable_status
  s_shared,           \* configs 1..s_shared name the pool of key "k1", the others that of "k2"
  s_cfg,              \* anchor_price and threshold of the configs
  s_global,           \* the global_threshold argument
  s_upstream,         \* per pool: what the price oracle answers about it
  s_pc,               \* per config: position of its _fetch_single_stable_status
  s_results,          \* per config: the results list it returned
  s_failed,           \* per config: its processing failed
  statuses,           \* the statuses argument of find_arbitrage_opportunities
  src_gas_usd,        \* its src_gas_usd argument, in cents
  min_profit_rate,    \* its min_profit_rate argument, in thousandths of a percent
  sc_pending,         \* the asset names the loop over by_name has still to visit
  sc_cost,            \* per asset name: the cost detail after the refinement attempt, if any
  opps,               \* the opps list
  sc_stage,           \* "loop" while the groups are visited, "returned" after the sort
  ca_args,            \* the arguments of the last calculate_arbitrage_cost call
  ca_detail,          \* the dict it returned
  ca_prev,            \* the dict returned by the call before it
  ca_raised,          \* which flat cost was raised since that call, and by how much
  ca_calls,           \* calls made so far
  rf_in,              \* refine_cost_with_lifi: its arguments and what its environment answers
  rf_out,             \* the dict it returned
  rf_stage,           \* "idle", "called" or "returned"
  lg_in,              \* the pair_data argument of check_token_legitimacy
  lg_out,             \* the dict it returned
  lg_stage,           \* "idle", "called" or "returned"
  m_pc,               \* run_cli_monitor_with_alerts: "fetch" between cycles, "records" in the for loop
  m_cycle,            \* cycles of the while loop that are over
  m_statuses,         \* the statuses of the cycle
  m_i,                \* the record the for loop visits next
  last_alert_state,   \* the dict of that name
  m_notified,         \* the keys a depeg notification was sent for in the cycle
  m_scanned,          \* find_arbitrage_opportunities was called in the cycle
  m_failed,           \* the cycle ended in the except handler
  m_before,           \* per key: is_alert in the last earlier cycle whose statuses held it
  users,              \* send_all_notifications: the list load_users returns
  send_log,           \* the list in SEND_LOG_FILE
  sn_calls,           \* calls made so far
  sn_last,            \* what the last call did on each channel
  sc_sent             \* messages ServerChan accepted today

limVars == <<burst_size, tokens, last_refill_time, last_request_time,
             total_requests, rate_limited_count, lock>>
acqVars == <<pc, wait, caller, acq_result, slept, wake, calls, granted>>
fetchVars == <<retry_count, max_retries, resp, delay, sent, result, rl_tmp>>

delayVars == <<d_max_retries, d_retry_count, d_header, d_used_count, d_wait_time, d_slept>>
cacheVars == <<cache, hit_count, miss_count, got, stored>>
collectVars == <<n_configs, cfg_pc, cfg_attempt, cfg_sent, cfg_last, cfg_wake, cfg_records,
                dex_sent>>
wrapVars == <<w_pc, w_key, w_entry, w_deleted, w_result, w_out, w_calls, invoked>>
threadVars == <<acqVars, fetchVars>>
\* the state of the components that use the cache and the collector's records
statusVars == <<s_n, s_shared, s_cfg, s_global, s_upstream, s_pc, s_results, s_failed>>
scanVars == <<statuses, src_gas_usd, min_profit_rate, sc_pending, sc_cost, opps, sc_stage>>
costVars == <<ca_args, ca_detail, ca_prev, ca_raised, ca_calls>>
\* the state of the components that stand alone
refineVars == <<rf_in, rf_out, rf_stage>>
legitVars == <<lg_in, lg_out, lg_stage>>
monitorVars == <<m_pc, m_cycle, m_statuses, m_i, last_alert_state, m_notified, m_scanned,
                 m_failed, m_before>>
sendVars == <<users, send_log, sn_calls, sn_last, sc_sent>>
notifyVars == <<monitorVars, sendVars>>
extraVars == <<costVars, refineVars, legitVars, notifyVars>>
laterVars == <<wrapVars, statusVars, scanVars, extraVars>>

vars == <<now, limVars, acqVars, fetchVars, delayVars, cacheVars, collectVars, laterVars>>
\* the state outside the limiter and its caller threads
nonLimiter == <<delayVars, cacheVars, collectVars, laterVars>>

\* ------------------------------------------------------------ RateLimiter

\* RateLimiter.__init__
LimiterInit ==
  /\ burst_size \in 1..MaxBurst
  /\ tokens = burst_size * OneToken
  /\ last_refill_time = CreationTime
  /\ last_request_time = 0
  /\ total_requests = 0
  /\ rate_limited_count = 0
  /\ lock = NoOwner

\* RateLimiter._refill_tokens: the new value of tokens at clock value t
RefilledTokens(t) ==
  IF t - last_refill_time > 0
    THEN Min(burst_size * OneToken, tokens + (t - last_refill_time))
    ELSE tokens

\* "with self.lock": the mutex can be taken when nobody owns it
\* (LockAvailableNoMutex: the critical section entered without the mutex)
LockAvailableNoMutex == TRUE
LockAvailable == lock = NoOwner

\* time.sleep(wait_time) returns no earlier than wait_time after it was called
\* (SleepReturnsEarly: a sleep that may return at once)
SleepReturnsEarly(w) == TRUE
SleepReturns(w) == now >= w

\* a caller thread enters acquire(wait) directly
AcquireCall(t) ==
  /\ pc[t] = "idle"
  /\ calls[t] < MaxCalls
  /\ \E w \in BOOLEAN : wait' = [wait EXCEPT ![t] = w]
  /\ caller' = [caller EXCEPT ![t] = "direct"]
  /\ calls' = [calls EXCEPT ![t] = @ + 1]
  /\ acq_result' = [acq_result EXCEPT ![t] = "none"]
  /\ slept' = [slept EXCEPT ![t] = FALSE]
  /\ pc' = [pc EXCEPT ![t] = "acq_lock"]
  /\ UNCHANGED nonLimiter
  /\ UNCHANGED <<now, limVars, wake, granted, fetchVars>>

\* acquire: "with self.lock:" entry
AcqLock(t) ==
  /\ pc[t] = "acq_lock"
  /\ LockAvailable
  /\ lock' = t
  /\ pc' = [pc EXCEPT ![t] = "acq_refill"]
  /\ UNCHANGED nonLimiter
  /\ UNCHANGED <<now, burst_size, tokens, last_refill_time, last_request_time,
                 total_requests, rate_limited_count,
                 wait, caller, acq_result, slept, wake, calls, granted, fetchVars>>

\* acquire: the first self._refill_tokens()
AcqRefill(t) ==
  /\ pc[t] = "acq_refill"
  /\ tokens' = RefilledTokens(now)
  /\ last_refill_time' = IF now - last_refill_time > 0 THEN now ELSE last_refill_time
  /\ pc' = [pc EXCEPT ![t] = "acq_check"]
  /\ UNCHANGED nonLimiter
  /\ UNCHANGED <<now, burst_size, last_request_time, total_requests,
                 rate_limited_count, lock,
                 wait, caller, acq_result, slept, wake, calls, granted, fetchVars>>

\* where acquire returns to: the caller's next position
ReturnPc(t) == IF caller[t] = "fetch" THEN "mr_send" ELSE "idle"

\* acquire: "return False" after "self.rate_limited_count += 1", leaving the lock
AcqFail(t) ==
  /\ rate_limited_count' = rate_limited_count + 1
  /\ acq_result' = [acq_result EXCEPT ![t] = "limited"]
  /\ lock' = NoOwner
  /\ pc' = [pc EXCEPT ![t] = ReturnPc(t)]
  /\ UNCHANGED <<tokens, last_request_time, total_requests, granted>>

\* acquire: "if self.tokens >= 1.0" and, when short, the wait_time computation
AcqCheck(t) ==
  /\ pc[t] = "acq_check"
  /\ LET wait_time == min_interval - (now - last_request_time) IN
       IF tokens >= OneToken
         THEN /\ pc' = [pc EXCEPT ![t] = "acq_debit"]
              /\ UNCHANGED <<tokens, last_request_time, total_requests,
                             rate_limited_count, lock, acq_result, slept, wake, granted>>
         ELSE IF wait_time > 0
           THEN IF wait[t]
                  THEN /\ pc' = [pc EXCEPT ![t] = "acq_sleep"]
                       /\ wake' = [wake EXCEPT ![t] = now + wait_time]
                       /\ slept' = [slept EXCEPT ![t] = TRUE]
                       /\ UNCHANGED <<tokens, last_request_time, total_requests,
                                      rate_limited_count, lock, acq_result, granted>>
                  ELSE /\ AcqFail(t)
                       /\ UNCHANGED <<slept, wake>>
           ELSE /\ pc' = [pc EXCEPT ![t] = "acq_debit"]
                /\ UNCHANGED <<tokens, last_request_time, total_requests,
                               rate_limited_count, lock, acq_result, slept, wake, granted>>
  /\ UNCHANGED nonLimiter
  /\ UNCHANGED <<now, burst_size, last_refill_time, wait, caller, calls, fetchVars>>

\* acquire: time.sleep(wait_time) returns, self._refill_tokens(), second check
AcqSleep(t) ==
  /\ pc[t] = "acq_sleep"
  /\ SleepReturns(wake[t])
  /\ last_refill_time' = IF now - last_refill_time > 0 THEN now ELSE last_refill_time
  /\ IF RefilledTokens(now) >= OneToken
       THEN /\ tokens' = RefilledTokens(now)
            /\ pc' = [pc EXCEPT ![t] = "acq_debit"]
            /\ UNCHANGED <<last_request_time, total_requests, rate_limited_count,
                           lock, acq_result, granted>>
       ELSE /\ rate_limited_count' = rate_limited_count + 1
            /\ tokens' = RefilledTokens(now)
            /\ acq_result' = [acq_result EXCEPT ![t] = "limited"]
            /\ lock' = NoOwner
            /\ pc' = [pc EXCEPT ![t] = ReturnPc(t)]
            /\ UNCHANGED <<last_request_time, total_requests, granted>>
  /\ wake' = [wake EXCEPT ![t] = 0]
  /\ UNCHANGED nonLimiter
  /\ UNCHANGED <<now, burst_size, wait, caller, slept, calls, fetchVars>>

\* acquire: "self.tokens -= 1.0; self.last_request_time = time.time();
\* self.total_requests += 1; return True", leaving the lock
AcqDebit(t) ==
  /\ pc[t] = "acq_debit"
  /\ tokens' = tokens - OneToken
  /\ last_request_time' = now
  /\ total_requests' = total_requests + 1
  /\ acq_result' = [acq_result EXCEPT ![t] = "granted"]
  /\ granted' = granted + 1
  /\ lock' = NoOwner
  /\ pc' = [pc EXCEPT ![t] = ReturnPc(t)]
  /\ UNCHANGED nonLimiter
  /\ UNCHANGED <<now, burst_size, last_refill_time, rate_limited_count,
                 wait, caller, slept, wake, calls, fetchVars>>

\* ------------------------------------------- make_rate_limited_request

\* resp.headers.get("Retry-After"): absent (None), the empty string, a text
\* that float() rejects (an HTTP-date), or the decimal text of a number
MaxRetryAfter == 1
RetryAfterHeaders ==
  {[kind |-> k, value |-> 0] : k \in {"absent", "empty", "text"}}
    \cup {[kind |-> "number", value |-> v] : v \in 0..MaxRetryAfter}

\* "if retry_after:" is true of a non-empty string
HeaderTruthy(h) == h.kind \in {"text", "number"}

\* the wait_time computed for a 429 response, in seconds
RetryDelay429NoCap(h, rc) ==
  IF HeaderTruthy(h)
    THEN IF h.kind = "number"
           THEN h.value
           ELSE base_delay * Pow(API_RATE_LIMIT_BACKOFF_FACTOR, rc)
    ELSE base_delay * Pow(API_RATE_LIMIT_BACKOFF_FACTOR, rc)
RetryDelay429(h, rc) ==
  IF HeaderTruthy(h)
    THEN IF h.kind = "number"
           THEN h.value
           ELSE base_delay * Pow(API_RATE_LIMIT_BACKOFF_FACTOR, rc)
    ELSE Min(base_delay * Pow(API_RATE_LIMIT_BACKOFF_FACTOR, rc),
             API_RATE_LIMIT_MAX_RETRY_DELAY)

\* the wait_time of the except handlers, computed after "retry_count += 1"
ExceptionDelay(rc) == base_delay * Pow(API_RATE_LIMIT_BACKOFF_FACTOR, rc - 1)

\* "while retry_count <= max_retries"
LoopCondition(rc, mr) == rc <= mr
\* the 429 branch: "if retry_count < max_retries"
MayRetry429Lax(rc, mr) == rc <= mr
MayRetry429(rc, mr) == rc < mr
\* the except handlers: "if retry_count <= max_retries"
MayRetryException(rc, mr) == rc <= mr

\* outcomes of requests.get followed by the status checks
Outcomes == {"ok", "http429", "httperr", "timeout", "connerr"}
NoResult == [status |-> "none", failure |-> "none"]

\* the head of the while loop reached with retry_count = rc: either the next
\* rate_limiter.wait_if_needed() or the raise after the loop
EnterLoopNoLimiter(t, rc) ==
  IF LoopCondition(rc, max_retries[t])
    THEN /\ pc' = [pc EXCEPT ![t] = "mr_send"]
         /\ wait' = [wait EXCEPT ![t] = TRUE]
         /\ acq_result' = [acq_result EXCEPT ![t] = "none"]
         /\ slept' = [slept EXCEPT ![t] = FALSE]
         /\ result' = result
    ELSE /\ pc' = [pc EXCEPT ![t] = "idle"]
         /\ result' = [result EXCEPT ![t] = [status |-> "raised", failure |-> "exhausted"]]
         /\ UNCHANGED <<wait, acq_result, slept>>
EnterLoop(t, rc) ==
  IF LoopCondition(rc, max_retries[t])
    THEN /\ pc' = [pc EXCEPT ![t] = "acq_lock"]
         /\ wait' = [wait EXCEPT ![t] = TRUE]
         /\ acq_result' = [acq_result EXCEPT ![t] = "none"]
         /\ slept' = [slept EXCEPT ![t] = FALSE]
         /\ result' = result
    ELSE /\ pc' = [pc EXCEPT ![t] = "idle"]
         /\ result' = [result EXCEPT ![t] = [status |-> "raised", failure |-> "exhausted"]]
         /\ UNCHANGED <<wait, acq_result, slept>>

\* a caller thread enters make_rate_limited_request(max_retries=mr), once
FetchCall(t) ==
  /\ pc[t] = "idle"
  /\ calls[t] = 0
  /\ \E mr \in 0..MaxRetries :
       /\ max_retries' = [max_retries EXCEPT ![t] = mr]
       /\ pc' = [pc EXCEPT ![t] = "acq_lock"]
  /\ wait' = [wait EXCEPT ![t] = TRUE]
  /\ caller' = [caller EXCEPT ![t] = "fetch"]
  /\ acq_result' = [acq_result EXCEPT ![t] = "none"]
  /\ slept' = [slept EXCEPT ![t] = FALSE]
  /\ calls' = [calls EXCEPT ![t] = @ + 1]
  /\ retry_count' = [retry_count EXCEPT ![t] = 0]
  /\ resp' = [resp EXCEPT ![t] = "none"]
  /\ delay' = [delay EXCEPT ![t] = 0]
  /\ sent' = [sent EXCEPT ![t] = 0]
  /\ result' = [result EXCEPT ![t] = NoResult]
  /\ UNCHANGED nonLimiter
  /\ UNCHANGED <<now, limVars, wake, granted, rl_tmp>>

\* an exception of class RequestException (Timeout, ConnectionError, or the
\* HTTPError of raise_for_status) caught by the except handlers
HandleException(t, failure) ==
  LET rc == retry_count[t] + 1 IN
  /\ retry_count' = [retry_count EXCEPT ![t] = rc]
  /\ IF MayRetryException(rc, max_retries[t])
       THEN /\ delay' = [delay EXCEPT ![t] = ExceptionDelay(rc)]
            /\ wake' = [wake EXCEPT ![t] = now + ExceptionDelay(rc) * TicksPerSecond]
            /\ pc' = [pc EXCEPT ![t] = "mr_sleep"]
            /\ result' = result
       ELSE /\ pc' = [pc EXCEPT ![t] = "idle"]
            /\ result' = [result EXCEPT ![t] = [status |-> "raised", failure |-> failure]]
            /\ UNCHANGED <<delay, wake>>

\* requests.get(...) after wait_if_needed() returned (its result is not looked
\* at), the 429 test and raise_for_status
FetchSend(t) ==
  /\ pc[t] = "mr_send"
  /\ sent' = [sent EXCEPT ![t] = @ + 1]
  /\ \E o \in Outcomes, h \in RetryAfterHeaders :
       /\ resp' = [resp EXCEPT ![t] = o]
       /\ CASE o = "ok" ->
                 /\ result' = [result EXCEPT ![t] = [status |-> "returned", failure |-> "none"]]
                 /\ pc' = [pc EXCEPT ![t] = "idle"]
                 /\ UNCHANGED <<retry_count, delay, wake>>
            [] o = "http429" ->
                 /\ delay' = [delay EXCEPT ![t] = RetryDelay429(h, retry_count[t])]
                 /\ pc' = [pc EXCEPT ![t] = "mr_rl_read"]
                 /\ UNCHANGED <<retry_count, result, wake>>
            [] OTHER -> HandleException(t, o)
  /\ UNCHANGED nonLimiter
  /\ UNCHANGED <<now, limVars, wait, caller, acq_result, slept, calls, granted,
                 max_retries, rl_tmp>>

\* "rate_limiter.rate_limited_count += 1" outside the lock: the read
FetchCountRead(t) ==
  /\ pc[t] = "mr_rl_read"
  /\ rl_tmp' = [rl_tmp EXCEPT ![t] = rate_limited_count]
  /\ pc' = [pc EXCEPT ![t] = "mr_rl_write"]
  /\ UNCHANGED nonLimiter
  /\ UNCHANGED <<now, limVars, wait, caller, acq_result, slept, wake, calls, granted,
                 retry_count, max_retries, resp, delay, sent, result>>

\* "rate_limiter.rate_limited_count += 1" outside the lock: the write, then
\* "if retry_count < max_retries: time.sleep(wait_time)" or raise_for_status()
FetchCountWrite(t) ==
  /\ pc[t] = "mr_rl_write"
  /\ rate_limited_count' = rl_tmp[t] + 1
  /\ IF MayRetry429(retry_count[t], max_retries[t])
       THEN /\ wake' = [wake EXCEPT ![t] = now + delay[t] * TicksPerSecond]
            /\ pc' = [pc EXCEPT ![t] = "mr_sleep429"]
            /\ UNCHANGED <<retry_count, delay, result>>
       ELSE HandleException(t, "http429")
  /\ UNCHANGED nonLimiter
  /\ UNCHANGED <<now, burst_size, tokens, last_refill_time, last_request_time,
                 total_requests, lock, wait, caller, acq_result, slept, calls, granted,
                 max_retries, resp, sent, rl_tmp>>

\* time.sleep(wait_time) of a backoff returns; after a 429 "retry_count += 1;
\* continue"; then the loop head
FetchSleep(t) ==
  /\ pc[t] \in {"mr_sleep", "mr_sleep429"}
  /\ SleepReturns(wake[t])
  /\ LET rc == IF pc[t] = "mr_sleep429" THEN retry_count[t] + 1 ELSE retry_count[t] IN
       /\ retry_count' = [retry_count EXCEPT ![t] = rc]
       /\ EnterLoop(t, rc)
  /\ wake' = [wake EXCEPT ![t] = 0]
  /\ UNCHANGED nonLimiter
  /\ UNCHANGED <<now, limVars, caller, calls, granted,
                 max_retries, resp, delay, sent, rl_tmp>>

\* the clock advances; past MaxTime only while some thread is asleep
Sleeping(t) == pc[t] \in {"acq_sleep", "mr_sleep", "mr_sleep429"} /\ wake[t] > now
Tick ==
  /\ now < CreationTime + MaxTime \/ \E t \in Threads : Sleeping(t)
  /\ now' = now + 1
  /\ UNCHANGED <<limVars, acqVars, fetchVars, nonLimiter>>

\* caller threads before any call
ThreadsInit ==
  /\ pc = [t \in Threads |-> "idle"]
  /\ wait = [t \in Threads |-> FALSE]
  /\ caller = [t \in Threads |-> "none"]
  /\ acq_result = [t \in Threads |-> "none"]
  /\ slept = [t \in Threads |-> FALSE]
  /\ wake = [t \in Threads |-> 0]
  /\ calls = [t \in Threads |-> 0]
  /\ granted = 0
  /\ retry_count = [t \in Threads |-> 0]
  /\ max_retries = [t \in Threads |-> 0]
  /\ resp = [t \in Threads |-> "none"]
  /\ delay = [t \in Threads |-> 0]
  /\ sent = [t \in Threads |-> 0]
  /\ result = [t \in Threads |-> NoResult]
  /\ rl_tmp = [t \in Threads |-> 0]

\* ------------------------------- the 429 loop of make_rate_limited_request

MaxRetryCount == 7       \* largest max_retries of the 429 loop
MaxHint == 3             \* largest Retry-After number of the 429 loop
HintHeaders ==
  {[kind |-> k, value |-> 0] : k \in {"absent", "empty", "text"}}
    \cup {[kind |-> "number", value |-> v] : v \in 0..MaxHint}

DelayOff ==
  /\ d_max_retries = 0
  /\ d_retry_count = 0
  /\ d_header = [kind |-> "absent", value |-> 0]
  /\ d_used_count = 0
  /\ d_wait_time = 0
  /\ d_slept = FALSE

\* a 429 response with retry budget left: wait_time is computed and slept,
\* then "retry_count += 1; continue"
Respond429 ==
  /\ MayRetry429(d_retry_count, d_max_retries)
  /\ \E h \in HintHeaders :
       /\ d_header' = h
       /\ d_wait_time' = RetryDelay429(h, d_retry_count)
  /\ d_used_count' = d_retry_count
  /\ d_retry_count' = d_retry_count + 1
  /\ d_slept' = TRUE
  /\ UNCHANGED <<now, limVars, threadVars, laterVars, d_max_retries, cacheVars, collectVars>>

\* ---------------------------------------------------------------- APICache

MaxTTL == 2              \* largest ttl given to APICache.set
MaxGets == 3             \* APICache.get calls counted by the hit/miss counters
MaxCacheTime == 4        \* ticks after creation at which the cache clock stops
Keys == {"k1", "k2"}
Values == {1, 2}
Miss == 0                \* None
NoGet == [has |-> FALSE, key |-> "k1", value |-> Miss, at |-> 0]
NotStored == [set |-> FALSE, value |-> Miss, at |-> 0, ttl |-> 0]
EmptyCache == [k \in {} |-> NotStored]

\* APICache.__init__
CacheInit ==
  /\ cache = EmptyCache
  /\ hit_count = 0
  /\ miss_count = 0
  /\ got = NoGet
  /\ stored = [k \in Keys |-> NotStored]

\* CacheEntry.__init__
CacheEntry(value, ttl) == [value |-> value, expire_time |-> now + ttl]

\* CacheEntry.is_expired
is_expired(entry) == now > entry.expire_time

\* APICache.get(key)
CacheGet(key) ==
  /\ hit_count + miss_count < MaxGets
  /\ IF key \notin DOMAIN cache \/ is_expired(cache[key])
       THEN /\ cache' = [k \in DOMAIN cache \ {key} |-> cache[k]]
            /\ miss_count' = miss_count + 1
            /\ hit_count' = hit_count
            /\ got' = [has |-> TRUE, key |-> key, value |-> Miss, at |-> now]
       ELSE /\ hit_count' = hit_count + 1
            /\ got' = [has |-> TRUE, key |-> key, value |-> cache[key].value, at |-> now]
            /\ UNCHANGED <<cache, miss_count>>
  /\ UNCHANGED <<now, limVars, threadVars, laterVars, delayVars, stored, collectVars>>

\* APICache.set(key, value, ttl)
CacheSet(key, value, ttl) ==
  /\ cache' = [k \in DOMAIN cache \cup {key} |->
                 IF k = key THEN CacheEntry(value, ttl) ELSE cache[k]]
  /\ stored' = [stored EXCEPT ![key] =
                 [set |-> TRUE, value |-> value, at |-> now, ttl |-> ttl]]
  /\ got' = NoGet
  /\ UNCHANGED <<now, limVars, threadVars, laterVars, delayVars, hit_count, miss_count, collectVars>>

\* APICache.clear
CacheClear ==
  /\ cache # EmptyCache \/ hit_count + miss_count > 0
  /\ cache' = EmptyCache
  /\ hit_count' = 0
  /\ miss_count' = 0
  /\ stored' = [k \in Keys |-> NotStored]
  /\ got' = NoGet
  /\ UNCHANGED <<now, limVars, threadVars, laterVars, delayVars, collectVars>>

\* the clock of the cache advances
CacheTick ==
  /\ now < CreationTime + MaxCacheTime
  /\ now' = now + 1
  /\ UNCHANGED <<limVars, threadVars, laterVars, delayVars, cacheVars, collectVars>>

\* ------------------------------------------------ the cached decorator

MaxWrapCalls == 2        \* calls of the wrapped function made by one worker
Workers == {"w1", "w2"}
\* cache keys of the calls the workers make: one function, the same arguments
WrappedKeys == {"k1"}
Results == Values \cup {Miss}
NoEntry == [value |-> Miss, expire_time |-> 0]
NoOutcome == [how |-> "none", value |-> Miss]

\* the ttl argument of the decorator, in ticks
actual_ttl == MaxTTL

\* no call of a wrapped function has been made
WrapOff ==
  /\ w_pc = [w \in Workers |-> "idle"]
  /\ w_key = [w \in Workers |-> "k1"]
  /\ w_entry = [w \in Workers |-> NoEntry]
  /\ w_deleted = [w \in Workers |-> "none"]
  /\ w_result = [w \in Workers |-> Miss]
  /\ w_out = [w \in Workers |-> NoOutcome]
  /\ w_calls = [w \in Workers |-> 0]
  /\ invoked = [k \in Keys |-> 0]

\* wrapper: "if result is not None" before _global_cache.set
ShouldStoreAlways(r) == TRUE

ShouldStore(r) == r # Miss

\* wrapper is entered, computes cache_key and runs the first statement of
\* APICache.get: entry = self._cache.get(key)
WrapCall(w, key) ==
  /\ w_pc[w] = "idle"
  /\ w_calls[w] < MaxWrapCalls
  /\ w_calls' = [w_calls EXCEPT ![w] = @ + 1]
  /\ w_key' = [w_key EXCEPT ![w] = key]
  /\ w_entry' = [w_entry EXCEPT ![w] = IF key \in DOMAIN cache THEN cache[key] ELSE NoEntry]
  /\ w_deleted' = [w_deleted EXCEPT ![w] = "none"]
  /\ w_result' = [w_result EXCEPT ![w] = Miss]
  /\ w_out' = [w_out EXCEPT ![w] = NoOutcome]
  /\ w_pc' = [w_pc EXCEPT ![w] = "check"]
  /\ UNCHANGED <<now, limVars, threadVars, delayVars, statusVars, scanVars, extraVars, cacheVars, collectVars, invoked>>

\* APICache.get: "if entry is None or entry.is_expired()", and the hit branch
GetCheck(w) ==
  /\ w_pc[w] = "check"
  /\ IF w_entry[w] = NoEntry
       THEN /\ miss_count' = miss_count + 1
            /\ w_pc' = [w_pc EXCEPT ![w] = "func"]
            /\ UNCHANGED <<hit_count, w_out>>
       ELSE IF is_expired(w_entry[w])
         THEN /\ w_pc' = [w_pc EXCEPT ![w] = "del"]
              /\ UNCHANGED <<hit_count, miss_count, w_out>>
         ELSE /\ hit_count' = hit_count + 1
              /\ w_out' = [w_out EXCEPT ![w] = [how |-> "hit", value |-> w_entry[w].value]]
              /\ w_pc' = [w_pc EXCEPT ![w] = "idle"]
              /\ UNCHANGED miss_count
  /\ UNCHANGED <<now, limVars, threadVars, delayVars, statusVars, scanVars, extraVars, cache, got, stored, collectVars,
                 w_key, w_entry, w_deleted, w_result, w_calls, invoked>>

\* APICache.get: "del self._cache[key]", which raises KeyError when the key
\* is gone, and the miss count
GetDel(w) ==
  /\ w_pc[w] = "del"
  /\ IF w_key[w] \in DOMAIN cache
       THEN /\ w_deleted' = [w_deleted EXCEPT ![w] =
                   IF is_expired(cache[w_key[w]]) THEN "expired" ELSE "fresh"]
            /\ cache' = [k \in DOMAIN cache \ {w_key[w]} |-> cache[k]]
            /\ miss_count' = miss_count + 1
            /\ w_pc' = [w_pc EXCEPT ![w] = "func"]
            /\ UNCHANGED w_out
       ELSE /\ w_out' = [w_out EXCEPT ![w] = [how |-> "KeyError", value |-> Miss]]
            /\ w_pc' = [w_pc EXCEPT ![w] = "idle"]
            /\ UNCHANGED <<cache, miss_count, w_deleted>>
  /\ UNCHANGED <<now, limVars, threadVars, delayVars, statusVars, scanVars, extraVars, hit_count, got, stored, collectVars,
                 w_key, w_entry, w_result, w_calls, invoked>>

\* wrapper: result = func(*args, **kwargs)
WrapFunc(w) ==
  /\ w_pc[w] = "func"
  /\ \E r \in Results : w_result' = [w_result EXCEPT ![w] = r]
  /\ invoked' = [invoked EXCEPT ![w_key[w]] = @ + 1]
  /\ w_pc' = [w_pc EXCEPT ![w] = "set"]
  /\ UNCHANGED <<now, limVars, threadVars, delayVars, statusVars, scanVars, extraVars, cacheVars, collectVars,
                 w_key, w_entry, w_deleted, w_out, w_calls>>

\* wrapper: the conditional _global_cache.set and the return
WrapSet(w) ==
  /\ w_pc[w] = "set"
  /\ IF ShouldStore(w_result[w])
       THEN /\ cache' = [k \in DOMAIN cache \cup {w_key[w]} |->
                          IF k = w_key[w] THEN CacheEntry(w_result[w], actual_ttl)
                                          ELSE cache[k]]
            /\ stored' = [stored EXCEPT ![w_key[w]] =
                  [set |-> TRUE, value |-> w_result[w], at |-> now, ttl |-> actual_ttl]]
       ELSE UNCHANGED <<cache, stored>>
  /\ w_out' = [w_out EXCEPT ![w] = [how |-> "miss", value |-> w_result[w]]]
  /\ w_pc' = [w_pc EXCEPT ![w] = "idle"]
  /\ UNCHANGED <<now, limVars, threadVars, delayVars, statusVars, scanVars, extraVars, hit_count, miss_count, got,
                 collectVars, w_key, w_entry, w_deleted, w_result, w_calls, invoked>>


\* --------------------------------------------- the status collector

MaxConfigs == 2          \* largest len(configs)
MaxCollectTime == 2      \* ticks after creation at which the collector clock stops unless a retry sleeps
API_RETRY_TIMES == 3
SequentialCutoff == 5
Configs == 1..MaxConfigs

CollectOff ==
  /\ n_configs = 0
  /\ cfg_pc = [c \in Configs |-> "pending"]
  /\ cfg_attempt = [c \in Configs |-> 0]
  /\ cfg_sent = [c \in Configs |-> 0]
  /\ cfg_last = [c \in Configs |-> "none"]
  /\ cfg_wake = [c \in Configs |-> 0]
  /\ cfg_records = [c \in Configs |-> 0]
  /\ dex_sent = 0

\* fetch_all_stable_status(configs) is entered with a non-empty list short
\* enough for the sequential path
CollectInit ==
  /\ n_configs \in {n \in Configs : n <= SequentialCutoff}
  /\ cfg_pc = [c \in Configs |-> "pending"]
  /\ cfg_attempt = [c \in Configs |-> 0]
  /\ cfg_sent = [c \in Configs |-> 0]
  /\ cfg_last = [c \in Configs |-> "none"]
  /\ cfg_wake = [c \in Configs |-> 0]
  /\ cfg_records = [c \in Configs |-> 0]
  /\ dex_sent = 0

\* outcomes of the pool query of get_dex_price_and_stable_token: a usable
\* pair, no pairs / no priceUsd, and the exception classes of its handlers
PoolOutcomes == {"data", "nodata", "timeout", "connerr", "http429", "httperr", "other"}

\* the wait_time, in seconds, slept before the next attempt
PoolRetryWait(o, attempt) ==
  CASE o = "timeout" -> Pow(2, attempt)
    [] o = "connerr" -> Pow(2, attempt + 1)
    [] o = "http429" -> 5 * Pow(2, attempt)
    [] OTHER -> Pow(2, attempt)

\* the sequential loop "for cfg in configs" reaches config c
CollectStart(c) ==
  /\ c <= n_configs
  /\ cfg_pc[c] = "pending"
  /\ \A b \in Configs : b < c => cfg_pc[b] = "done"
  /\ cfg_pc' = [cfg_pc EXCEPT ![c] = "pool"]
  /\ UNCHANGED <<now, limVars, threadVars, laterVars, delayVars, cacheVars,
                 n_configs, cfg_attempt, cfg_sent, cfg_last, cfg_wake, cfg_records, dex_sent>>

\* the outcomes after which get_dex_price_and_stable_token returns the
\* all-None result at once: no pairs or no priceUsd, and an HTTPError of a
\* status other than 429
FailsFastNoData(o) == o = "nodata"

FailsFast(o) == o \in {"nodata", "httperr"}

\* get_dex_price_and_stable_token: one requests.get(url) of the retry loop
PoolQuery(c) ==
  /\ cfg_pc[c] = "pool"
  /\ dex_sent' = dex_sent + 1
  /\ cfg_sent' = [cfg_sent EXCEPT ![c] = @ + 1]
  /\ \E o \in PoolOutcomes :
       /\ cfg_last' = [cfg_last EXCEPT ![c] = o]
       /\ CASE o = "data" ->
                /\ cfg_pc' = [cfg_pc EXCEPT ![c] = "liq"]
                /\ UNCHANGED <<cfg_attempt, cfg_wake>>
           [] o # "data" /\ FailsFast(o) ->
                /\ cfg_pc' = [cfg_pc EXCEPT ![c] = "done"]
                /\ UNCHANGED <<cfg_attempt, cfg_wake>>
           [] OTHER ->
                IF cfg_attempt[c] < API_RETRY_TIMES - 1
                  THEN /\ cfg_pc' = [cfg_pc EXCEPT ![c] = "pool_sleep"]
                       /\ cfg_wake' = [cfg_wake EXCEPT ![c] =
                            now + PoolRetryWait(o, cfg_attempt[c]) * TicksPerSecond]
                       /\ UNCHANGED cfg_attempt
                  ELSE /\ cfg_pc' = [cfg_pc EXCEPT ![c] = "done"]
                       /\ UNCHANGED <<cfg_attempt, cfg_wake>>
  /\ UNCHANGED <<now, limVars, threadVars, laterVars, delayVars, cacheVars, n_configs, cfg_records>>

\* get_dex_price_and_stable_token: time.sleep(wait_time) returns, next attempt
PoolSleep(c) ==
  /\ cfg_pc[c] = "pool_sleep"
  /\ SleepReturns(cfg_wake[c])
  /\ cfg_attempt' = [cfg_attempt EXCEPT ![c] = @ + 1]
  /\ cfg_wake' = [cfg_wake EXCEPT ![c] = 0]
  /\ cfg_pc' = [cfg_pc EXCEPT ![c] = "pool"]
  /\ UNCHANGED <<now, limVars, threadVars, laterVars, delayVars, cacheVars,
                 n_configs, cfg_sent, cfg_last, cfg_records, dex_sent>>

\* _fetch_single_stable_status: the liquidity query, requests.get(url, timeout=5);
\* whatever it yields, processing goes on
LiquidityQuery(c) ==
  /\ cfg_pc[c] = "liq"
  /\ dex_sent' = dex_sent + 1
  /\ cfg_pc' = [cfg_pc EXCEPT ![c] = "tokens"]
  /\ UNCHANGED <<now, limVars, threadVars, laterVars, delayVars, cacheVars,
                 n_configs, cfg_attempt, cfg_sent, cfg_last, cfg_wake, cfg_records>>

\* _fetch_single_stable_status: the tokens/v1 price query, sent when the pool
\* response named a token address, and the records appended after it
TokensQuery(c) ==
  /\ cfg_pc[c] = "tokens"
  /\ \E addrs_to_query \in BOOLEAN :
       dex_sent' = IF addrs_to_query THEN dex_sent + 1 ELSE dex_sent
  /\ \E r \in 0..2 : cfg_records' = [cfg_records EXCEPT ![c] = r]
  /\ cfg_pc' = [cfg_pc EXCEPT ![c] = "done"]
  /\ UNCHANGED <<now, limVars, threadVars, laterVars, delayVars, cacheVars,
                 n_configs, cfg_attempt, cfg_sent, cfg_last, cfg_wake>>

\* the clock of the collector advances
CollectTick ==
  /\ \/ now < CreationTime + MaxCollectTime
     \/ \E c \in Configs : cfg_pc[c] = "pool_sleep" /\ cfg_wake[c] > now
  /\ now' = now + 1
  /\ UNCHANGED <<limVars, threadVars, laterVars, delayVars, cacheVars, collectVars>>

\* ------------------------------------- the records of the status collector

MaxStatusConfigs == 6    \* largest len(configs) whose records are followed
MaxPooled == 12          \* len(configs) of the large batch
MAX_CONCURRENT_REQUESTS == 5
DEFAULT_THRESHOLD == 5   \* 0.5 %, in tenths of a percent
ThresholdScale == 10     \* thresholds are held in tenths of a percent
NoThreshold == -1        \* None as global_threshold, an absent "threshold" key
Max(a, b) == IF a >= b THEN a ELSE b
StatusConfigs == 1..Max(MaxStatusConfigs, MaxPooled)
Abs(a) == IF a >= 0 THEN a ELSE -a

\* what the oracle answers about a pool (pairs, liquidity and tokens/v1
\* queries), prices in thousandths: kind "ok" a well-formed pair, "nodata" no
\* pair or an upstream error, "bad_main" a monitored token whose symbol is a
\* number, "bad_counter" a counter token without address whose symbol is a number
UpstreamKinds == {"ok", "nodata", "bad_main", "bad_counter"}
PairPrices == {990, 1000, 1050}
TokenPrices == {0, 1010}
PoolRates == {0, 2}
Answer(kind, pair_price, main_token_price, counter_token_price, pool_rate) ==
  [kind |-> kind, pair_price |-> pair_price, main_token_price |-> main_token_price,
   counter_token_price |-> counter_token_price, pool_rate |-> pool_rate]
\* the call raised KeyError in the cache
RaisedKeyError == Answer("KeyError", 0, 0, 0, 0)
NoData == Answer("none", 0, 0, 0, 0)

\* cfg["chain"], cfg["pair_address"]: the cache key of the config's pool query
cfg_key(c) == IF c <= s_shared THEN "k1" ELSE "k2"

\* fetch_all_stable_status: the path taken and the size of the pool
Sequential == s_n <= SequentialCutoff
\* max(1, len(configs) // 2) alone
max_workers_uncapped == IF Sequential THEN 1 ELSE Max(1, s_n \div 2)

max_workers == IF Sequential THEN 1
               ELSE Min(MAX_CONCURRENT_REQUESTS, Max(1, s_n \div 2))
Running == {c \in StatusConfigs : s_pc[c] \in {"del", "func"}}

\* threshold = float(global_threshold) if global_threshold is not None else
\* float(cfg.get("threshold", DEFAULT_THRESHOLD))
EffectiveThresholdTruthy(g, cfg) ==
  IF g # NoThreshold /\ g # 0 THEN g
  ELSE IF cfg.threshold # NoThreshold THEN cfg.threshold ELSE DEFAULT_THRESHOLD

EffectiveThreshold(g, cfg) ==
  IF g # NoThreshold THEN g
  ELSE IF cfg.threshold # NoThreshold THEN cfg.threshold ELSE DEFAULT_THRESHOLD

\* (price - anchor) / anchor * 100, held as a fraction
Deviation(price, anchor) == [num |-> (price - anchor) * 100, den |-> anchor]

\* abs(deviation_pct) >= threshold
IsAlert(dev, threshold) == Abs(dev.num) * ThresholdScale >= threshold * Abs(dev.den)

\* one appended record
Record(name, chain, price, cfg, g) ==
  [name |-> name, chain |-> chain, price |-> price,
   deviation_pct |-> Deviation(price, cfg.anchor_price),
   threshold |-> EffectiveThreshold(g, cfg),
   is_alert |-> IsAlert(Deviation(price, cfg.anchor_price), EffectiveThreshold(g, cfg))]

\* main_price: the tokens/v1 price, else the pair's priceUsd
MainPrice(d) == IF d.main_token_price > 0 THEN d.main_token_price ELSE d.pair_price

\* counter_price: the tokens/v1 price, else main_price / pool_rate, else None (0)
CounterPrice(d) ==
  IF d.counter_token_price > 0 THEN d.counter_token_price
  ELSE IF d.pool_rate # 0 /\ MainPrice(d) # 0 THEN MainPrice(d) \div d.pool_rate
  ELSE 0

MainRecords(key, d, cfg, g) ==
  IF MainPrice(d) > 0 THEN <<Record("USDT", key, MainPrice(d), cfg, g)>> ELSE <<>>

CounterRecords(key, d, cfg, g) ==
  IF CounterPrice(d) > 0 THEN <<Record("USDC", key, CounterPrice(d), cfg, g)>> ELSE <<>>

\* the body of _fetch_single_stable_status after the pool query: the list it
\* returns and whether it left through "return results" of a missing price
\* or through the except clause
BuildRecords(key, d, cfg, g) ==
  CASE d.kind \in {"KeyError", "nodata", "bad_main"} -> [results |-> <<>>, failed |-> TRUE]
    [] d.kind = "bad_counter" -> [results |-> MainRecords(key, d, cfg, g), failed |-> TRUE]
    [] OTHER -> [results |-> MainRecords(key, d, cfg, g) \o CounterRecords(key, d, cfg, g),
                 failed |-> FALSE]

StatusOff ==
  /\ s_n = 0
  /\ s_shared = 0
  /\ s_cfg = [anchor_price |-> 1000, threshold |-> NoThreshold]
  /\ s_global = NoThreshold
  /\ s_upstream = [k \in Keys |-> NoData]
  /\ s_pc = [c \in StatusConfigs |-> "queued"]
  /\ s_results = [c \in StatusConfigs |-> <<>>]
  /\ s_failed = [c \in StatusConfigs |-> FALSE]

\* the rest of _fetch_single_stable_status once the pool query has given d
\* (or raised), and the extend of the result list by what it returns
FinishConfig(c, d) ==
  /\ s_results' = [s_results EXCEPT ![c] =
                     BuildRecords(cfg_key(c), d, s_cfg, s_global).results]
  /\ s_failed' = [s_failed EXCEPT ![c] =
                    BuildRecords(cfg_key(c), d, s_cfg, s_global).failed]
  /\ s_pc' = [s_pc EXCEPT ![c] = "done"]

\* a task starts _fetch_single_stable_status(cfg): the loop body of the
\* sequential path or a free pool thread taking the next submitted task. It
\* enters cached.wrapper and runs APICache.get up to its first branch; on a
\* hit it goes on to the end with the cached tuple
PoolStart(c) ==
  /\ c <= s_n
  /\ s_pc[c] = "queued"
  /\ \A b \in 1..(c - 1) : s_pc[b] # "queued"
  /\ Cardinality(Running) < max_workers
  /\ LET key == cfg_key(c) IN
       IF key \notin DOMAIN cache
         THEN /\ miss_count' = miss_count + 1
              /\ s_pc' = [s_pc EXCEPT ![c] = "func"]
              /\ UNCHANGED <<hit_count, s_results, s_failed>>
         ELSE IF is_expired(cache[key])
           THEN /\ s_pc' = [s_pc EXCEPT ![c] = "del"]
                /\ UNCHANGED <<hit_count, miss_count, s_results, s_failed>>
           ELSE /\ hit_count' = hit_count + 1
                /\ FinishConfig(c, cache[key].value)
                /\ UNCHANGED miss_count
  /\ UNCHANGED <<now, limVars, threadVars, delayVars, collectVars, wrapVars, scanVars, extraVars, cache, got,
                 stored, s_n, s_shared, s_cfg, s_global, s_upstream>>

\* APICache.get: "del self._cache[key]" of the entry found expired; a
\* KeyError leaves _fetch_single_stable_status through its except clause
DexDel(c) ==
  /\ s_pc[c] = "del"
  /\ IF cfg_key(c) \in DOMAIN cache
       THEN /\ cache' = [k \in DOMAIN cache \ {cfg_key(c)} |-> cache[k]]
            /\ miss_count' = miss_count + 1
            /\ s_pc' = [s_pc EXCEPT ![c] = "func"]
            /\ UNCHANGED <<s_results, s_failed>>
       ELSE /\ FinishConfig(c, RaisedKeyError)
            /\ UNCHANGED <<cache, miss_count>>
  /\ UNCHANGED <<now, limVars, threadVars, delayVars, collectVars, wrapVars, scanVars, extraVars, hit_count, got,
                 stored, s_n, s_shared, s_cfg, s_global, s_upstream>>

\* get_dex_price_and_stable_token runs, the wrapper stores its tuple (never
\* None) and the task goes on to the end
DexFetch(c) ==
  /\ s_pc[c] = "func"
  /\ cache' = [k \in DOMAIN cache \cup {cfg_key(c)} |->
                 IF k = cfg_key(c) THEN CacheEntry(s_upstream[k], actual_ttl) ELSE cache[k]]
  /\ FinishConfig(c, s_upstream[cfg_key(c)])
  /\ UNCHANGED <<now, limVars, threadVars, delayVars, collectVars, wrapVars, scanVars, extraVars, hit_count,
                 miss_count, got, stored, s_n, s_shared, s_cfg, s_global, s_upstream>>

\* ------------------------------------------------ the arbitrage scanner

MaxStatuses == 4         \* largest len(statuses)
DEFAULT_DST_GAS_USD == 100        \* cents
DEFAULT_BRIDGE_FEE_USD == 500     \* cents
DEFAULT_SLIPPAGE_PCT == 50        \* hundredths of a percent
DEFAULT_MIN_PROFIT_USD == 1000    \* cents
DEFAULT_MIN_PROFIT_RATE == 50     \* thousandths of a percent
DEFAULT_MIN_SPREAD_PCT == 1       \* tenths of a percent
MIN_LIQUIDITY_USD == 50000        \* dollars
trade_amount_usd == 1000          \* the trade_amount_usd argument, in dollars
NoLiquidity == -1                 \* None as liquidity_usd

Status(name, chain, price, liquidity_usd) ==
  [name |-> name, chain |-> chain, price |-> price, liquidity_usd |-> liquidity_usd]

\* the records the input is drawn from, prices in ten-thousandths of a dollar
StatusPool ==
  { Status("USDT", "bsc", 10000, 60000),
    Status("USDT", "bsc", 10500, 60000),
    Status("USDT", "bsc", 10000, 40000),
    Status("USDT", "arbitrum", 10500, NoLiquidity),
    Status("USDT", "arbitrum", 10005, 60000),
    Status("USDT", "arbitrum", 10500, 40000),
    Status("USDC", "bsc", 10005, 60000),
    Status("USDC", "arbitrum", 10500, NoLiquidity) }
AssetNames == {s.name : s \in StatusPool}

\* what the LI.FI quote makes of the net profit, in cents, when it is obtained
RefinedProfits == {500, 5000}
NoQuote == [quote |-> FALSE, profit |-> 0]
Quotes == {NoQuote} \cup {[quote |-> TRUE, profit |-> p] : p \in RefinedProfits}
NoCost == [computed |-> FALSE, net_profit |-> 0, net_margin |-> 0]
CostDetail(net_profit, net_margin) ==
  [computed |-> TRUE, net_profit |-> net_profit, net_margin |-> net_margin]

\* round(num / den, n) of Python 3 for den > 0: to nearest, ties to even
Round(num, den) ==
  LET q == num \div den
      r == num % den
  IN  IF 2 * r < den THEN q
      ELSE IF 2 * r > den THEN q + 1
      ELSE IF q % 2 = 0 THEN q ELSE q + 1

RECURSIVE GCD(_, _)
GCD(a, b) == IF b = 0 THEN a ELSE GCD(b, a % b)

\* round(x / trade_amount_usd * 100, 3) in thousandths of a percent, for x
\* = num / den cents: the fraction 1000 / trade_amount_usd is reduced first
MarginOf(num, den) ==
  LET g == GCD(1000, trade_amount_usd)
  IN  Round((1000 \div g) * num, den * (trade_amount_usd \div g))

\* by_name[name]: the records of the name, in input order
Group(name) == SelectSeq(statuses, LAMBDA s : s.name = name)

\* the keys of by_name in insertion order
RECURSIVE NamesOf(_)
NamesOf(seq) ==
  IF seq = <<>> THEN <<>>
  ELSE LET front == NamesOf(SubSeq(seq, 1, Len(seq) - 1))
           last == seq[Len(seq)].name
       IN  IF \E i \in DOMAIN front : front[i] = last THEN front ELSE Append(front, last)

\* min(lst, key=price) and max(lst, key=price): the first record of the
\* least, of the greatest, price
CheapFirst(lst) == lst[1]

Cheap(lst) ==
  lst[CHOOSE i \in DOMAIN lst :
        /\ \A j \in DOMAIN lst : lst[i].price <= lst[j].price
        /\ \A j \in 1..(i - 1) : lst[j].price > lst[i].price]

Rich(lst) ==
  lst[CHOOSE i \in DOMAIN lst :
        /\ \A j \in DOMAIN lst : lst[i].price >= lst[j].price
        /\ \A j \in 1..(i - 1) : lst[j].price < lst[i].price]

\* spread_pct < min_spread_pct
SpreadBelow(cheap, rich) ==
  (rich.price - cheap.price) * 100 * ThresholdScale < DEFAULT_MIN_SPREAD_PCT * cheap.price

\* liq is not None and liq < MIN_LIQUIDITY_USD
LowLiquidityOrNone(liq) == liq = NoLiquidity \/ liq < MIN_LIQUIDITY_USD

LowLiquidity(liq) == liq # NoLiquidity /\ liq < MIN_LIQUIDITY_USD

\* the tests of the loop body that come before calculate_arbitrage_cost
PassesPrefilter(lst) ==
  /\ Len(lst) >= 2
  /\ Rich(lst).price > Cheap(lst).price
  /\ ~SpreadBelow(Cheap(lst), Rich(lst))
  /\ ~LowLiquidity(Cheap(lst).liquidity_usd)
  /\ ~LowLiquidity(Rich(lst).liquidity_usd)

\* None as 盈亏平衡资金规模
NoAmount == -1

\* fixed_cost = src_gas_usd + dst_gas_usd + bridge_fee_usd
FixedCostNoBridge(src_gas, dst_gas, bridge_fee) == src_gas + dst_gas

FixedCost(src_gas, dst_gas, bridge_fee) == src_gas + dst_gas + bridge_fee

\* "effective_edge > 0 and fixed_cost > 0", the test that guards
\* min_trade_amount; edge has the sign of effective_edge
EdgePositive(edge, fixed) == edge > 0

HasBreakEven(edge, fixed) == edge > 0 /\ fixed > 0

\* the dict returned for a price that is not positive
ZeroDetail ==
  [theoretical_profit |-> 0, total_cost |-> 0, src_gas |-> 0, dst_gas |-> 0,
   bridge_fee |-> 0, slippage_loss |-> 0, net_profit |-> 0, net_margin |-> 0,
   spread_pct |-> 0, min_trade_amount |-> NoAmount]

\* the dict calculate_arbitrage_cost returns.  Prices are in ten-thousandths
\* of a dollar, slippage_pct in hundredths of a percent, and the flat costs in
\* 1/unit of a cent.  The money fields of the result are in cents (round(x,
\* 2)), the percentages in thousandths of a percent (round(x, 3)).
\*   theoretical_profit = theo / (src_price * unit) cents,
\*   real_profit = real / (src_price * unit) cents,
\*   effective_edge = edge / (100 * src_price) percent.
ArbitrageCost(src_price, dst_price, src_gas, dst_gas, bridge_fee, slippage_pct, unit) ==
  IF src_price <= 0 \/ dst_price <= 0 THEN ZeroDetail
  ELSE LET slippage_loss == (trade_amount_usd * slippage_pct * unit) \div 100
           fixed_cost == FixedCost(src_gas, dst_gas, bridge_fee)
           total_cost == fixed_cost + slippage_loss
           theo == 100 * unit * trade_amount_usd * (dst_price - src_price)
           real == theo - total_cost * src_price
           edge == (dst_price - src_price) * 10000 - slippage_pct * src_price
           g == GCD(10000 * src_price, unit * edge)
       IN  [theoretical_profit |-> Round(theo, src_price * unit),
            total_cost |-> Round(total_cost, unit),
            src_gas |-> Round(src_gas, unit),
            dst_gas |-> Round(dst_gas, unit),
            bridge_fee |-> Round(bridge_fee, unit),
            slippage_loss |-> Round(slippage_loss, unit),
            net_profit |-> Round(real, src_price * unit),
            net_margin |-> MarginOf(real, src_price * unit),
            spread_pct |-> Round((dst_price - src_price) * 100000, src_price),
            min_trade_amount |->
              IF HasBreakEven(edge, fixed_cost)
                THEN Round(fixed_cost * ((10000 * src_price) \div g), (unit * edge) \div g)
                ELSE NoAmount]

\* calculate_arbitrage_cost as the scanner calls it, with flat costs in whole
\* cents: the net profit in cents and the net margin in thousandths of a
\* percent of the returned dict
calculate_arbitrage_cost(src_price, dst_price, src_gas, dst_gas, bridge_fee, slippage_pct) ==
  LET d == ArbitrageCost(src_price, dst_price, src_gas, dst_gas, bridge_fee, slippage_pct, 1)
  IN  CostDetail(d.net_profit, d.net_margin)

\* refine_cost_with_lifi: the base detail when the quote is skipped (same
\* chain) or fails, else the detail with the quote's net profit and margin
refine_cost_with_lifi(src_status, dst_status, base_cost_detail, q) ==
  IF src_status.chain = dst_status.chain \/ ~q.quote THEN base_cost_detail
  ELSE CostDetail(q.profit, MarginOf(q.profit, 1))

\* net_profit < min_profit_usd or net_margin < min_profit_rate
BelowProfitFloor(cost) == cost.net_profit < DEFAULT_MIN_PROFIT_USD

BelowFloors(cost) ==
  cost.net_profit < DEFAULT_MIN_PROFIT_USD \/ cost.net_margin < min_profit_rate

Opportunity(name, cheap, rich, cost) ==
  [name |-> name, cheap_chain |-> cheap.chain, cheap_price |-> cheap.price,
   rich_chain |-> rich.chain, rich_price |-> rich.price, cost_detail |-> cost]

\* opps.sort(key=net profit, reverse=True): stable, greatest first
Unsorted(seq) == seq

RECURSIVE SortByProfit(_)
SortByProfit(seq) ==
  IF seq = <<>> THEN <<>>
  ELSE LET front == SortByProfit(SubSeq(seq, 1, Len(seq) - 1))
           x == seq[Len(seq)]
           k == Cardinality({i \in DOMAIN front :
                  front[i].cost_detail.net_profit >= x.cost_detail.net_profit})
       IN  SubSeq(front, 1, k) \o <<x>> \o SubSeq(front, k + 1, Len(front))

ScanOff ==
  /\ statuses = <<>>
  /\ src_gas_usd = 0
  /\ min_profit_rate = 0
  /\ sc_pending = <<>>
  /\ sc_cost = [n \in AssetNames |-> NoCost]
  /\ opps = <<>>
  /\ sc_stage = "returned"

\* find_arbitrage_opportunities is entered and by_name is built
ScanInit ==
  /\ statuses \in UNION {[1..n -> StatusPool] : n \in 0..MaxStatuses}
  /\ \E p \in {<<100, DEFAULT_MIN_PROFIT_RATE>>, <<6000, DEFAULT_MIN_PROFIT_RATE>>,
               <<100, 5000>>} :
       src_gas_usd = p[1] /\ min_profit_rate = p[2]
  /\ sc_pending = NamesOf(statuses)
  /\ sc_cost = [n \in AssetNames |-> NoCost]
  /\ opps = <<>>
  /\ sc_stage = "loop"

\* one iteration of "for name, lst in by_name.items()"
ScanGroup ==
  /\ sc_stage = "loop"
  /\ sc_pending # <<>>
  /\ LET name == Head(sc_pending)
         lst == Group(name)
     IN  IF PassesPrefilter(lst)
           THEN \E q \in Quotes :
                  LET cost == refine_cost_with_lifi(Cheap(lst), Rich(lst),
                                calculate_arbitrage_cost(Cheap(lst).price, Rich(lst).price,
                                  src_gas_usd, DEFAULT_DST_GAS_USD, DEFAULT_BRIDGE_FEE_USD,
                                  DEFAULT_SLIPPAGE_PCT), q)
                  IN  /\ sc_cost' = [sc_cost EXCEPT ![name] = cost]
                      /\ opps' = IF BelowFloors(cost) THEN opps
                                 ELSE Append(opps, Opportunity(name, Cheap(lst), Rich(lst), cost))
           ELSE UNCHANGED <<sc_cost, opps>>
  /\ sc_pending' = Tail(sc_pending)
  /\ UNCHANGED <<now, limVars, threadVars, delayVars, cacheVars, collectVars, wrapVars,
                 statusVars, extraVars, statuses, src_gas_usd, min_profit_rate, sc_stage>>

\* the sort and the return
ScanReturn ==
  /\ sc_stage = "loop"
  /\ sc_pending = <<>>
  /\ opps' = SortByProfit(opps)
  /\ sc_stage' = "returned"
  /\ UNCHANGED <<now, limVars, threadVars, delayVars, cacheVars, collectVars, wrapVars,
                 statusVars, extraVars, statuses, src_gas_usd, min_profit_rate, sc_pending, sc_cost>>

\* ------------------------------------------------------- the cost model

MaxCostCalls == 2        \* calls of calculate_arbitrage_cost that are followed
Mills == 10              \* the flat costs of these calls are in tenths of a cent
NoDetail == [called |-> FALSE]
NotRaised == [field |-> "none", by |-> 0]
FlatCosts == {"src_gas", "dst_gas", "bridge_fee"}
\* the amounts a flat cost is raised by: 0.4 cent, 1 cent, 1 dollar
Raises == {4, 10, 1000}

CostArgs ==
  [src_price : {0, 10000, 10005}, dst_price : {10000, 10050, 10500},
   src_gas : {0, 1000, 1004}, dst_gas : {0, 1000}, bridge_fee : {0, 5000},
   slippage_pct : {0, DEFAULT_SLIPPAGE_PCT}]

CostOf(a) ==
  ArbitrageCost(a.src_price, a.dst_price, a.src_gas, a.dst_gas, a.bridge_fee,
                a.slippage_pct, Mills)

CostOff ==
  /\ ca_args = [src_price |-> 0, dst_price |-> 0, src_gas |-> 0, dst_gas |-> 0,
                bridge_fee |-> 0, slippage_pct |-> 0]
  /\ ca_detail = NoDetail
  /\ ca_prev = NoDetail
  /\ ca_raised = NotRaised
  /\ ca_calls = 0

\* the first call of calculate_arbitrage_cost
CostCall ==
  /\ ca_calls = 0
  /\ ca_detail' = CostOf(ca_args)
  /\ ca_calls' = 1
  /\ UNCHANGED <<now, limVars, threadVars, delayVars, cacheVars, collectVars, wrapVars,
                 statusVars, scanVars, refineVars, legitVars, notifyVars, ca_args, ca_prev,
                 ca_raised>>

\* a further call, with one flat cost raised by d and the other arguments kept
CostRaise(field, d) ==
  /\ ca_calls >= 1
  /\ ca_calls < MaxCostCalls
  /\ ca_args' = [ca_args EXCEPT ![field] = @ + d]
  /\ ca_prev' = ca_detail
  /\ ca_detail' = CostOf(ca_args')
  /\ ca_raised' = [field |-> field, by |-> d]
  /\ ca_calls' = ca_calls + 1
  /\ UNCHANGED <<now, limVars, threadVars, delayVars, cacheVars, collectVars, wrapVars,
                 statusVars, scanVars, refineVars, legitVars, notifyVars>>

\* ------------------------------------------- the refinement by a quote

\* In this component prices are in tenths of a dollar, the quote's toAmount
\* (after the division by 10 ** dst_decimals) in hundredths of a token, the
\* amounts of the quote's gasCosts and feeCosts in 1/Mills of a cent, and
\* the money fields of a cost detail in cents.
NoChainId == 0
CHAIN_NAME_TO_ID == [c \in {"bsc", "arbitrum"} |-> IF c = "bsc" THEN 56 ELSE 42161]
ChainId(chain) == IF chain \in DOMAIN CHAIN_NAME_TO_ID THEN CHAIN_NAME_TO_ID[chain] ELSE NoChainId

\* str(token).lower().strip()
Lower(token) == IF token = "0xAA" THEN "0xaa" ELSE token

\* the base detail with the keys refine_cost_with_lifi may add: none yet
Detail(d) ==
  d @@ [skip_reason |-> "", lifi_source |-> FALSE, src_gas_lifi |-> FALSE,
        dst_gas_lifi |-> FALSE, bridge_fee_lifi |-> FALSE, slippage_lifi |-> FALSE,
        other_fees |-> NoAmount, complete |-> FALSE, raised |-> FALSE]

\* the keys calculate_arbitrage_cost writes
BaseFields == DOMAIN ZeroDetail

\* the base_cost_detail argument: what calculate_arbitrage_cost makes of the
\* two prices with the default flat costs
BaseOf(in) ==
  Detail(ArbitrageCost(in.src_price * 1000, in.dst_price * 1000, 100, DEFAULT_DST_GAS_USD,
                       DEFAULT_BRIDGE_FEE_USD, DEFAULT_SLIPPAGE_PCT, 1))

\* base_cost_detail["LI.FI_跳过原因"] = skip_reason; return base_cost_detail
Skipped(base, reason) == [base EXCEPT !.skip_reason = reason]

\* an exception inside the outer try: the handler of "except Exception"
Uncaught(base, reason) == [base EXCEPT !.raised = TRUE]

Caught(base, reason) == Skipped(base, reason)

\* the shapes of the answer of li.quest/v1/quote to a request that got 200
Shapes == {"quote", "not_json", "not_object", "no_to_amount", "bad_to_amount", "bad_item"}

Zero(x) == IF x = NoAmount THEN 0 ELSE x

\* "if total_fees_from_lifi is not None: total_cost_from_lifi +=
\* total_fees_from_lifi"
FeesLeftOut(fees) == 0

FeesInTotal(fees) == IF fees = NoAmount THEN 0 ELSE fees

\* the success path, from "to_amount_int = int(to_amount_str)" to "return
\* refined".  With s = src_price and d = dst_price,
\*   revenue_usd = rev mills, real_profit = real mills,
\*   theoretical_profit = theo / s mills,
\*   slippage_loss_from_lifi = loss / (s * s) mills,
\*   pure_slippage_loss = pure / (s * s) mills,
\*   total_cost_from_lifi = total / (s * s) mills.
Refined(in, base) ==
  LET s == in.src_price
      d == in.dst_price
      rev == in.to_amount * d
      real == rev - 1000 * trade_amount_usd
      theo == 1000 * trade_amount_usd * (d - s)
      loss == 1000 * trade_amount_usd * d * d - rev * s * s
      src_gas == IF in.q_src_gas # NoAmount THEN in.q_src_gas ELSE in.gas_api
      dst_gas == IF in.q_dst_gas # NoAmount THEN in.q_dst_gas ELSE in.gas_api
      bridge == in.q_bridge_fee
      fees == in.q_other_fees
      known == Zero(src_gas) + Zero(dst_gas) + Zero(bridge) + Zero(fees)
      pure == Max(0, loss - known * s * s)
      slip_updated == loss > 0 /\ pure > 0
      updated_slip == IF slip_updated THEN pure ELSE base.slippage_loss * Mills * s * s
      total == s * s * ( (IF src_gas # NoAmount THEN src_gas ELSE base.src_gas * Mills)
                       + (IF dst_gas # NoAmount THEN dst_gas ELSE base.dst_gas * Mills)
                       + (IF bridge # NoAmount THEN bridge ELSE base.bridge_fee * Mills)
                       + FeesInTotal(fees) )
               + updated_slip
      itemized == \/ src_gas # NoAmount
                  \/ dst_gas # NoAmount
                  \/ bridge # NoAmount
                  \/ fees # NoAmount
                  \/ (loss > 0 /\ updated_slip # base.slippage_loss * Mills * s * s)
      net == IF itemized THEN Round(theo * s - total, s * s * Mills) ELSE Round(real, Mills)
  IN  [base EXCEPT
         !.theoretical_profit = Round(theo, s * Mills),
         !.total_cost = IF itemized THEN Round(total, s * s * Mills)
                        ELSE Round(theo - real * s, s * Mills),
         !.net_profit = net,
         !.net_margin = IF itemized THEN Round(net * 1000, trade_amount_usd)
                        ELSE MarginOf(real, Mills),
         !.lifi_source = TRUE,
         !.src_gas = IF src_gas # NoAmount THEN Round(src_gas, Mills) ELSE @,
         !.src_gas_lifi = src_gas # NoAmount,
         !.dst_gas = IF dst_gas # NoAmount THEN Round(dst_gas, Mills) ELSE @,
         !.dst_gas_lifi = dst_gas # NoAmount,
         !.bridge_fee = IF bridge # NoAmount THEN Round(bridge, Mills) ELSE @,
         !.bridge_fee_lifi = bridge # NoAmount,
         !.other_fees = IF fees # NoAmount /\ fees > 0 THEN Round(fees, Mills) ELSE @,
         !.slippage_loss = IF slip_updated THEN Round(pure, s * s * Mills) ELSE @,
         !.slippage_lifi = slip_updated,
         !.complete = itemized]

\* refine_cost_with_lifi(src_status, dst_status, trade_amount_usd,
\* base_cost_detail), the statuses and the answers of the configuration and
\* of LI.FI being the fields of in
RefineWithLifi(in, base) ==
  IF \/ ChainId(in.src_chain) = NoChainId
     \/ ChainId(in.dst_chain) = NoChainId
     \/ in.src_token = ""
     \/ in.dst_token = ""
    THEN Skipped(base, "missing")
  ELSE IF ChainId(in.src_chain) = ChainId(in.dst_chain) THEN Skipped(base, "same chain")
  ELSE IF Lower(in.src_token) = Lower(in.dst_token) THEN Skipped(base, "same token")
  ELSE IF in.src_price <= 0 \/ in.dst_price <= 0 THEN Skipped(base, "invalid price")
  ELSE IF ~in.from_address THEN Skipped(base, "no fromAddress")
  ELSE IF in.http = "exception" THEN Skipped(base, "request exception")
  ELSE IF in.http = "error" THEN Skipped(base, "request failed")
  ELSE IF in.shape = "not_json" THEN Skipped(base, "request exception")
  ELSE IF in.shape = "not_object" THEN Caught(base, "processing error")
  ELSE IF in.shape = "no_to_amount" THEN Skipped(base, "no toAmount")
  ELSE IF in.shape = "bad_to_amount" THEN Caught(base, "processing error")
  ELSE IF in.shape = "bad_item" THEN Caught(base, "processing error")
  ELSE Refined(in, base)

RefineOff ==
  /\ rf_in = [shape |-> "none"]
  /\ rf_out = [raised |-> FALSE]
  /\ rf_stage = "idle"

\* the inputs: every way of failing around one well-formed request, and the
\* well-formed request over a range of quotes
RefineInputs ==
  LET good == [src_chain |-> "bsc", dst_chain |-> "arbitrum", src_token |-> "0xAA",
               dst_token |-> "0xbb", src_price |-> 10, dst_price |-> 11,
               from_address |-> TRUE, http |-> "ok", shape |-> "quote",
               to_amount |-> 109092, q_src_gas |-> 1004, q_dst_gas |-> NoAmount,
               q_bridge_fee |-> NoAmount, q_other_fees |-> NoAmount, gas_api |-> NoAmount]
  IN  { [good EXCEPT !.src_chain = c[1], !.dst_chain = c[2], !.src_token = t[1],
                     !.dst_token = t[2], !.src_price = sp, !.from_address = fa,
                     !.http = h, !.shape = sh] :
          c \in {<<"bsc", "arbitrum">>, <<"bsc", "bsc">>, <<"bsc", "solana">>,
                 <<"solana", "arbitrum">>},
          t \in {<<"0xAA", "0xbb">>, <<"0xAA", "0xaa">>, <<"", "0xbb">>, <<"0xAA", "">>},
          sp \in {0, 10}, fa \in BOOLEAN, h \in {"ok", "error", "exception"},
          sh \in Shapes }
      \cup
      { [good EXCEPT !.src_price = sp, !.to_amount = ta, !.q_src_gas = sg,
                     !.q_dst_gas = dg, !.q_bridge_fee = bf, !.q_other_fees = of,
                     !.gas_api = ga] :
          sp \in {9, 10}, ta \in {109092, 100000, 150000}, sg \in {NoAmount, 1004},
          dg \in {NoAmount, 504}, bf \in {NoAmount, 3004}, of \in {NoAmount, 0, 1504},
          ga \in {NoAmount, 250} }

\* refine_cost_with_lifi, from the call to the return
RefineCall ==
  /\ rf_stage = "called"
  /\ rf_out' = RefineWithLifi(rf_in, BaseOf(rf_in))
  /\ rf_stage' = "returned"
  /\ UNCHANGED <<now, limVars, threadVars, delayVars, cacheVars, collectVars, wrapVars,
                 statusVars, scanVars, costVars, legitVars, notifyVars, rf_in>>

\* ------------------------------------------------- the legitimacy check

\* OFFICIAL_STABLE_ADDRESSES, cut down to two symbols and two chains
OFFICIAL_STABLE_ADDRESSES ==
  [sym \in {"USDT", "DAI"} |->
     IF sym = "USDT" THEN [c \in {"ethereum", "bsc"} |-> IF c = "ethereum" THEN "0xab" ELSE "0xcd"]
     ELSE [c \in {"ethereum"} |-> "0xef"]]

\* TRUSTED_DEXS, cut down likewise
TRUSTED_DEXS ==
  [c \in {"ethereum", "bsc"} |-> IF c = "ethereum" THEN {"Uniswap V3"} ELSE {"PancakeSwap V3"}]

\* address.lower()
AddressLower(address) == IF address = "0xAB" THEN "0xab" ELSE address

\* is_official_token(symbol, chain, address): "True", "False", or "None"
\* for the unknown
is_official_token(symbol, chain, address) ==
  IF address = "" THEN "False"
  ELSE IF symbol \in DOMAIN OFFICIAL_STABLE_ADDRESSES
          /\ chain \in DOMAIN OFFICIAL_STABLE_ADDRESSES[symbol]
    THEN IF OFFICIAL_STABLE_ADDRESSES[symbol][chain] = AddressLower(address)
           THEN "True" ELSE "False"
  ELSE "None"

NoPrice == -1          \* None as price_usd
min_liquidity_usd == 50000
max_price_deviation == 10      \* hundredths of a dollar

\* check_token_legitimacy(pair_data): the risk level after each of the four
\* checks, the symbols warned about as fake and those reported unverifiable
check_token_legitimacy(pair_data) ==
  LET chain == pair_data.chain
      pair == {<<pair_data.base_symbol, pair_data.base_address>>,
               <<pair_data.quote_symbol, pair_data.quote_address>>}
      checked == {t \in pair : t[1] \in DOMAIN OFFICIAL_STABLE_ADDRESSES}
      fake == {t \in checked : is_official_token(t[1], chain, t[2]) = "False"}
      unknown == {t \in checked : is_official_token(t[1], chain, t[2]) = "None"}
      risk1 == IF pair_data.liquidity_usd < min_liquidity_usd THEN "warning" ELSE "safe"
      risk2 == IF pair_data.price_usd # NoPrice
                  /\ Abs(pair_data.price_usd - 100) > max_price_deviation
                 THEN IF Abs(pair_data.price_usd - 100) > 50 THEN "danger" ELSE "warning"
               ELSE risk1
      risk3 == IF fake # {} THEN "danger" ELSE risk2
      risk4 == IF /\ pair_data.dexId # ""
                  /\ chain \in DOMAIN TRUSTED_DEXS
                  /\ pair_data.dexId \notin TRUSTED_DEXS[chain]
                  /\ risk3 = "safe"
                 THEN "warning" ELSE risk3
  IN  [is_legitimate |-> risk4 # "danger", risk_level |-> risk4,
       price_risk |-> risk2, fake |-> fake, unverifiable |-> unknown]

LegitOff ==
  /\ lg_in = [chain |-> ""]
  /\ lg_out = [risk_level |-> ""]
  /\ lg_stage = "idle"

PairData ==
  [chain : {"ethereum", "bsc", "solana"},
   base_symbol : {"USDT", "DAI", "WBNB"},
   base_address : {"", "0xAB", "0xcd", "0xfake"},
   quote_symbol : {"USDT", "WBNB"},
   quote_address : {"", "0xcd"},
   liquidity_usd : {40000, 60000},
   price_usd : {NoPrice, 100, 120, 160},
   dexId : {"", "Uniswap V3", "ShadySwap"}]

\* check_token_legitimacy, from the call to the return
LegitCheck ==
  /\ lg_stage = "called"
  /\ lg_out' = check_token_legitimacy(lg_in)
  /\ lg_stage' = "returned"
  /\ UNCHANGED <<now, limVars, threadVars, delayVars, cacheVars, collectVars, wrapVars,
                 statusVars, scanVars, costVars, refineVars, notifyVars, lg_in>>

\* ------------------------------------------------- the CLI monitor loop

MaxCycles == 3           \* cycles of the while loop
MaxMonitorRecords == 2   \* records in the statuses of one cycle

MonitorNames == {"USDT", "USDC"}
MonitorChains == {"ethereum", "bsc"}

\* key_nc = f"{name}_{chain}"; no name and no chain here holds an underscore,
\* so the pair stands for the string
key_nc(s) == <<s.name, s.chain>>

MonitorKeys == MonitorNames \X MonitorChains

\* the records _fetch_single_stable_status builds: the symbol is the name,
\* upper-cased and never empty
StatusRecords ==
  {[name |-> n, chain |-> c, symbol |-> n, is_alert |-> a] :
     n \in MonitorNames, c \in MonitorChains, a \in BOOLEAN}

\* what fetch_all_stable_status may return: up to MaxMonitorRecords records
\* of different keys, or nothing
StatusLists ==
  {st \in UNION {[1..n -> StatusRecords] : n \in 0..MaxMonitorRecords} :
     \A i, j \in 1..Len(st) : i # j => key_nc(st[i]) # key_nc(st[j])}

\* d.get(k, default)
Get(d, k, default) == IF k \in DOMAIN d THEN d[k] ELSE default

\* d[k] = v
Put(d, k, v) == [x \in DOMAIN d \cup {k} |-> IF x = k THEN v ELSE d[x]]

\* the argument [symbol] of get_coingecko_prices
ListOf(symbol) == [type |-> "list", items |-> <<symbol>>]

\* hash() of a value: a list has none
Hashable(value) == value.type # "list"

\* cached.wrapper: cache_key = hash((args, kwargs)) raises TypeError for an
\* argument that cannot be hashed, before the cache or the function is reached
WrapperRaises(arg) == ~Hashable(arg)

MonitorOff ==
  /\ m_pc = "off"
  /\ m_cycle = 0
  /\ m_statuses = <<>>
  /\ m_i = 1
  /\ last_alert_state = <<>>
  /\ m_notified = {}
  /\ m_scanned = FALSE
  /\ m_failed = FALSE
  /\ m_before = [k \in MonitorKeys |-> FALSE]

\* the top of the while loop: the statuses of the cycle are fetched; with
\* none the loop sleeps and continues
MonitorFetch ==
  /\ m_pc = "fetch"
  /\ m_cycle < MaxCycles
  /\ \E st \in StatusLists :
       /\ m_statuses' = st
       /\ m_pc' = IF st = <<>> THEN "fetch" ELSE "records"
       /\ m_cycle' = IF st = <<>> THEN m_cycle + 1 ELSE m_cycle
  /\ m_before' = [k \in MonitorKeys |->
                    IF \E i \in 1..Len(m_statuses) : key_nc(m_statuses[i]) = k
                    THEN LET i == CHOOSE i \in 1..Len(m_statuses) : key_nc(m_statuses[i]) = k
                         IN  m_statuses[i].is_alert
                    ELSE m_before[k]]
  /\ m_i' = 1
  /\ m_notified' = {}
  /\ m_scanned' = FALSE
  /\ m_failed' = FALSE
  /\ UNCHANGED <<now, limVars, threadVars, delayVars, cacheVars, collectVars, wrapVars,
                 statusVars, scanVars, costVars, refineVars, legitVars, sendVars,
                 last_alert_state>>

\* one pass of the for loop over the statuses.  A record that turned to
\* alert asks get_coingecko_prices([symbol]); an exception leaves the try
\* block for the handler of the loop, which logs, sleeps and starts the next
\* cycle
MonitorRecord ==
  /\ m_pc = "records"
  /\ m_i <= Len(m_statuses)
  /\ LET s == m_statuses[m_i]
         prev == Get(last_alert_state, key_nc(s), FALSE)
         turned == s.is_alert /\ ~prev
     IN  IF turned /\ s.symbol # "" /\ WrapperRaises(ListOf(s.symbol))
         THEN /\ m_failed' = TRUE
              /\ m_pc' = "fetch"
              /\ m_cycle' = m_cycle + 1
              /\ UNCHANGED <<m_i, m_notified, last_alert_state>>
         ELSE /\ m_notified' = IF turned THEN m_notified \cup {key_nc(s)} ELSE m_notified
              /\ last_alert_state' = Put(last_alert_state, key_nc(s), s.is_alert)
              /\ m_i' = m_i + 1
              /\ UNCHANGED <<m_failed, m_pc, m_cycle>>
  /\ UNCHANGED <<now, limVars, threadVars, delayVars, cacheVars, collectVars, wrapVars,
                 statusVars, scanVars, costVars, refineVars, legitVars, sendVars,
                 m_statuses, m_scanned, m_before>>

\* after the for loop: find_arbitrage_opportunities(statuses, ...) is called
\* and the cycle ends in the sleep
MonitorScan ==
  /\ m_pc = "records"
  /\ m_i > Len(m_statuses)
  /\ m_scanned' = TRUE
  /\ m_pc' = "fetch"
  /\ m_cycle' = m_cycle + 1
  /\ UNCHANGED <<now, limVars, threadVars, delayVars, cacheVars, collectVars, wrapVars,
                 statusVars, scanVars, costVars, refineVars, legitVars, sendVars,
                 m_statuses, m_i, last_alert_state, m_notified, m_failed, m_before>>

\* ------------------------------------------------- the notification quota

MaxUsers == 2            \* users in users.json
MaxSendCalls == 2        \* send_all_notifications calls on top of the earlier ones of the day

MAX_DAILY_SENDS == 5
LOG_KEEP == 100          \* save_send_log keeps the last 100 entries

\* the channels a user or a notify_cfg has set up (the DEFAULT_* keys are
\* empty); active: enabled and inside its start_at .. end_at window
UserKinds ==
  {[active |-> TRUE, tg |-> TRUE, sc |-> FALSE, dt |-> FALSE],
   [active |-> TRUE, tg |-> FALSE, sc |-> TRUE, dt |-> FALSE],
   [active |-> TRUE, tg |-> TRUE, sc |-> TRUE, dt |-> TRUE],
   [active |-> FALSE, tg |-> FALSE, sc |-> TRUE, dt |-> FALSE]}

UserLists == UNION {[1..n -> UserKinds] : n \in 0..MaxUsers}

\* get_today_send_count("ServerChan"): the successful entries of today whose
\* channels hold ServerChan
RECURSIVE get_today_send_count(_)
get_today_send_count(logs) ==
  IF logs = <<>> THEN 0
  ELSE (IF Head(logs).day = "today" /\ Head(logs).success
           /\ "ServerChan" \in Head(logs).channels THEN 1 ELSE 0)
       + get_today_send_count(Tail(logs))

can_send_serverchan(logs) == get_today_send_count(logs) < MAX_DAILY_SENDS

\* save_send_log
Keep(logs) ==
  IF Len(logs) > LOG_KEEP THEN SubSeq(logs, Len(logs) - LOG_KEEP + 1, Len(logs)) ELSE logs

\* add_send_log: one entry for the call
add_send_log(logs, msg_type, channels, success) ==
  Keep(Append(logs, [day |-> "today", type |-> msg_type, channels |-> channels,
                     success |-> success]))

\* the users of the list a call sends to
ActiveUsers(us) == {i \in 1..Len(us) : us[i].active}

\* the users the quota check lets through: the log is read for each user but
\* written once, after the loop
ScAllowed(us, logs) == {i \in ActiveUsers(us) : us[i].sc /\ can_send_serverchan(logs)}

NoCall == [tg_due |-> 0, tg_tried |-> 0, dt_due |-> 0, dt_tried |-> 0, sc_due |-> 0,
           sc_tried |-> 0]

SendOff ==
  /\ users = <<>>
  /\ send_log = <<>>
  /\ sn_calls = 0
  /\ sn_last = NoCall
  /\ sc_sent = 0

\* the channels that took the message and the entry of the call
Sent(tg_got, sc_got, dt_got) ==
  (IF tg_got # {} THEN {"Telegram"} ELSE {})
    \cup (IF sc_got # {} THEN {"ServerChan"} ELSE {})
    \cup (IF dt_got # {} THEN {"DingTalk"} ELSE {})

\* send_all_notifications(text, msg_type = ...): every active user in turn;
\* tg_ok and dt_ok tell whether Telegram and DingTalk answer ok during the
\* call, sc_ok which of the ServerChan requests do
SendAll(tg_ok, dt_ok, sc_ok) ==
  /\ sn_calls < MaxSendCalls
  /\ ActiveUsers(users) # {}
  /\ LET act == ActiveUsers(users)
         tg_tried == {i \in act : users[i].tg}
         dt_tried == {i \in act : users[i].dt}
         sc_tried == ScAllowed(users, send_log)
         tg_got == IF tg_ok THEN tg_tried ELSE {}
         dt_got == IF dt_ok THEN dt_tried ELSE {}
         sc_got == sc_tried \cap sc_ok
         channels == Sent(tg_got, sc_got, dt_got)
     IN  /\ send_log' = add_send_log(send_log, "alert", channels, channels # {})
         /\ sc_sent' = sc_sent + Cardinality(sc_got)
         /\ sn_last' = [tg_due |-> Cardinality(tg_tried), tg_tried |-> Cardinality(tg_tried),
                        dt_due |-> Cardinality(dt_tried), dt_tried |-> Cardinality(dt_tried),
                        sc_due |-> Cardinality({i \in act : users[i].sc}),
                        sc_tried |-> Cardinality(sc_tried)]
  /\ sn_calls' = sn_calls + 1
  /\ UNCHANGED <<now, limVars, threadVars, delayVars, cacheVars, collectVars, wrapVars,
                 statusVars, scanVars, costVars, refineVars, legitVars, monitorVars, users>>

\* send_all_notifications(text, notify_cfg): the test button of the panel
\* sends once with the given keys
SendTest(cfg, tg_ok, dt_ok, sc_ok) ==
  /\ sn_calls < MaxSendCalls
  /\ LET sc_try == cfg.sc /\ can_send_serverchan(send_log)
         channels == (IF cfg.tg /\ tg_ok THEN {"Telegram"} ELSE {})
                       \cup (IF sc_try /\ sc_ok THEN {"ServerChan"} ELSE {})
                       \cup (IF cfg.dt /\ dt_ok THEN {"DingTalk"} ELSE {})
     IN  /\ send_log' = add_send_log(send_log, "test", channels, channels # {})
         /\ sc_sent' = sc_sent + (IF sc_try /\ sc_ok THEN 1 ELSE 0)
         /\ sn_last' = [tg_due |-> IF cfg.tg THEN 1 ELSE 0, tg_tried |-> IF cfg.tg THEN 1 ELSE 0,
                        dt_due |-> IF cfg.dt THEN 1 ELSE 0, dt_tried |-> IF cfg.dt THEN 1 ELSE 0,
                        sc_due |-> IF cfg.sc THEN 1 ELSE 0,
                        sc_tried |-> IF sc_try THEN 1 ELSE 0]
  /\ sn_calls' = sn_calls + 1
  /\ UNCHANGED <<now, limVars, threadVars, delayVars, cacheVars, collectVars, wrapVars,
                 statusVars, scanVars, costVars, refineVars, legitVars, monitorVars, users>>

NotifyOff == MonitorOff /\ SendOff

\* every component introduced after the collector is idle
ExtraOff == CostOff /\ RefineOff /\ LegitOff /\ NotifyOff
LaterOff == WrapOff /\ StatusOff /\ ScanOff /\ ExtraOff

\* ------------------------------------------------------- specifications

\* the limiter shared by a thread in make_rate_limited_request and a thread
\* calling acquire
Init ==
  /\ now = CreationTime
  /\ LimiterInit
  /\ ThreadsInit
  /\ DelayOff
  /\ CacheInit
  /\ CollectOff
  /\ LaterOff

Next ==
  \/ Tick
  \/ \E t \in Acquirers : AcquireCall(t)
  \/ \E t \in Threads : AcqLock(t)
  \/ \E t \in Threads : AcqRefill(t)
  \/ \E t \in Threads : AcqCheck(t)
  \/ \E t \in Threads : AcqSleep(t)
  \/ \E t \in Threads : AcqDebit(t)
  \/ \E t \in Fetchers : FetchCall(t)
  \/ \E t \in Threads : FetchSend(t)
  \/ \E t \in Threads : FetchCountRead(t)
  \/ \E t \in Threads : FetchCountWrite(t)
  \/ \E t \in Threads : FetchSleep(t)

Spec == Init /\ [][Next]_vars

\* a call of make_rate_limited_request that is answered 429 every time
InitDelay ==
  /\ now = CreationTime
  /\ LimiterInit
  /\ ThreadsInit
  /\ d_max_retries \in 0..MaxRetryCount
  /\ d_retry_count = 0
  /\ d_header = [kind |-> "absent", value |-> 0]
  /\ d_used_count = 0
  /\ d_wait_time = 0
  /\ d_slept = FALSE
  /\ CacheInit
  /\ CollectOff
  /\ LaterOff

NextDelay == Respond429

SpecDelay == InitDelay /\ [][NextDelay]_vars

\* the TTL cache under set, get, clear and the passing of time
InitCache ==
  /\ now = CreationTime
  /\ LimiterInit
  /\ ThreadsInit
  /\ DelayOff
  /\ CacheInit
  /\ CollectOff
  /\ LaterOff

NextCache ==
  \/ CacheTick
  \/ \E k \in Keys : CacheGet(k)
  \/ \E k \in Keys, v \in Values, ttl \in 1..MaxTTL : CacheSet(k, v, ttl)
  \/ CacheClear

SpecCache == InitCache /\ [][NextCache]_vars

\* fetch_all_stable_status on its sequential path, beside the (idle) limiter
InitCollect ==
  /\ now = CreationTime
  /\ LimiterInit
  /\ ThreadsInit
  /\ DelayOff
  /\ CacheInit
  /\ CollectInit
  /\ LaterOff

NextCollect ==
  \/ CollectTick
  \/ \E c \in Configs : CollectStart(c)
  \/ \E c \in Configs : PoolQuery(c)
  \/ \E c \in Configs : PoolSleep(c)
  \/ \E c \in Configs : LiquidityQuery(c)
  \/ \E c \in Configs : TokensQuery(c)

SpecCollect == InitCollect /\ [][NextCollect]_vars

\* worker threads calling a function wrapped by cached
InitCached ==
  /\ now = CreationTime
  /\ LimiterInit
  /\ ThreadsInit
  /\ DelayOff
  /\ CacheInit
  /\ CollectOff
  /\ WrapOff
  /\ StatusOff
  /\ ScanOff
  /\ ExtraOff

NextCached ==
  \/ CacheTick
  \/ \E w \in Workers, k \in WrappedKeys : WrapCall(w, k)
  \/ \E w \in Workers : GetCheck(w)
  \/ \E w \in Workers : GetDel(w)
  \/ \E w \in Workers : WrapFunc(w)
  \/ \E w \in Workers : WrapSet(w)

SpecCached == InitCached /\ [][NextCached]_vars

\* fetch_all_stable_status(configs, global_threshold) is entered: one config
\* over the range of oracle answers and thresholds, or several configs of two
\* pools, one well-formed and one of any kind, with the cache as the scan
\* cycle before left it: empty or holding entries that have expired since
InitStatus ==
  /\ now = CreationTime
  /\ LimiterInit
  /\ ThreadsInit
  /\ DelayOff
  /\ CollectOff
  /\ WrapOff
  /\ hit_count = 0 /\ miss_count = 0 /\ got = NoGet
  /\ stored = [k \in Keys |-> NotStored]
  /\ s_n \in (1..MaxStatusConfigs) \cup {MaxPooled}
  /\ s_shared \in 0..s_n
  /\ \/ /\ s_n = 1
        /\ s_cfg \in [anchor_price : {1000, 2000}, threshold : {NoThreshold, 10}]
        /\ s_global \in {NoThreshold, 0, 10}
        /\ \E kind \in {"ok", "bad_counter"}, p \in PairPrices, m \in TokenPrices,
              t \in TokenPrices, r \in PoolRates :
             s_upstream = [k \in Keys |-> Answer(kind, p, m, t, r)]
     \/ /\ s_n > 1
        /\ s_n <= MaxStatusConfigs
        /\ s_cfg = [anchor_price |-> 1000, threshold |-> NoThreshold]
        /\ s_global = NoThreshold
        /\ \E kind \in UpstreamKinds :
             s_upstream = [k \in Keys |->
               Answer(IF k = "k1" THEN kind ELSE "ok", 990, 0, 0, 2)]
     \/ /\ s_n > MaxStatusConfigs
        /\ s_shared = 0
        /\ s_cfg = [anchor_price |-> 1000, threshold |-> NoThreshold]
        /\ s_global = NoThreshold
        /\ s_upstream = [k \in Keys |-> Answer("ok", 990, 0, 0, 2)]
  /\ \E old \in {{}, Keys} :
       /\ (s_n > MaxStatusConfigs => old = {})
       /\ cache = [k \in old |-> [value |-> s_upstream[k], expire_time |-> now - 1]]
  /\ s_pc = [c \in StatusConfigs |-> "queued"]
  /\ s_results = [c \in StatusConfigs |-> <<>>]
  /\ s_failed = [c \in StatusConfigs |-> FALSE]
  /\ ScanOff
  /\ ExtraOff

NextStatus ==
  \/ \E c \in StatusConfigs : PoolStart(c)
  \/ \E c \in StatusConfigs : DexDel(c)
  \/ \E c \in StatusConfigs : DexFetch(c)

SpecStatus == InitStatus /\ [][NextStatus]_vars

\* find_arbitrage_opportunities over the lists of up to MaxStatuses records
InitScan ==
  /\ now = CreationTime
  /\ LimiterInit
  /\ ThreadsInit
  /\ DelayOff
  /\ CacheInit
  /\ CollectOff
  /\ WrapOff
  /\ StatusOff
  /\ ScanInit
  /\ ExtraOff

NextScan == ScanGroup \/ ScanReturn

SpecScan == InitScan /\ [][NextScan]_vars

\* the limiter, the cache and the components that use them are idle
BaseOff ==
  /\ now = CreationTime
  /\ LimiterInit
  /\ ThreadsInit
  /\ DelayOff
  /\ CacheInit
  /\ CollectOff
  /\ WrapOff
  /\ StatusOff
  /\ ScanOff

\* calculate_arbitrage_cost over a range of prices, flat costs and slippage
InitCost ==
  /\ BaseOff
  /\ RefineOff
  /\ LegitOff
  /\ NotifyOff
  /\ ca_args \in CostArgs
  /\ ca_detail = NoDetail
  /\ ca_prev = NoDetail
  /\ ca_raised = NotRaised
  /\ ca_calls = 0

NextCost == CostCall \/ \E field \in FlatCosts, d \in Raises : CostRaise(field, d)

SpecCost == InitCost /\ [][NextCost]_vars

\* refine_cost_with_lifi over its failure paths and a range of quotes
InitRefine ==
  /\ BaseOff
  /\ CostOff
  /\ LegitOff
  /\ NotifyOff
  /\ rf_in \in RefineInputs
  /\ rf_out = [raised |-> FALSE]
  /\ rf_stage = "called"

NextRefine == RefineCall

SpecRefine == InitRefine /\ [][NextRefine]_vars

\* check_token_legitimacy over pairs of known and unknown symbols and chains
InitLegit ==
  /\ BaseOff
  /\ CostOff
  /\ RefineOff
  /\ NotifyOff
  /\ lg_in \in PairData
  /\ lg_out = [risk_level |-> ""]
  /\ lg_stage = "called"

NextLegit == LegitCheck

SpecLegit == InitLegit /\ [][NextLegit]_vars

\* the monitor loop over MaxCycles cycles of statuses
InitMonitor ==
  /\ BaseOff
  /\ CostOff
  /\ RefineOff
  /\ LegitOff
  /\ SendOff
  /\ m_pc = "fetch"
  /\ m_cycle = 0
  /\ m_statuses = <<>>
  /\ m_i = 1
  /\ last_alert_state = <<>>
  /\ m_notified = {}
  /\ m_scanned = FALSE
  /\ m_failed = FALSE
  /\ m_before = [k \in MonitorKeys |-> FALSE]

NextMonitor == MonitorFetch \/ MonitorRecord \/ MonitorScan

SpecMonitor == InitMonitor /\ [][NextMonitor]_vars

\* the log after k calls of the day that each sent one message by ServerChan,
\* behind the entries of the day before
Earlier(old, k) ==
  old \o [i \in 1..k |-> [day |-> "today", type |-> "alert", channels |-> {"ServerChan"},
                          success |-> TRUE]]

\* the sends of one Beijing day, from a log of up to MAX_DAILY_SENDS earlier
\* calls that may hold an entry of the day before
InitSend ==
  /\ BaseOff
  /\ CostOff
  /\ RefineOff
  /\ LegitOff
  /\ MonitorOff
  /\ users \in UserLists
  /\ \E k \in 0..MAX_DAILY_SENDS :
       /\ send_log \in {Earlier(<<>>, k),
                        Earlier(<<[day |-> "yesterday", type |-> "alert",
                                   channels |-> {"ServerChan"}, success |-> TRUE]>>, k)}
       /\ sc_sent = k
  /\ sn_calls = 0
  /\ sn_last = NoCall

NextSend ==
  \/ \E tg_ok, dt_ok \in BOOLEAN, sc_ok \in SUBSET (1..MaxUsers) : SendAll(tg_ok, dt_ok, sc_ok)
  \/ \E cfg \in UserKinds, tg_ok, dt_ok, sc_ok \in BOOLEAN : SendTest(cfg, tg_ok, dt_ok, sc_ok)

SpecSend == InitSend /\ [][NextSend]_vars

\* ----------------------------------------------------------------- claims

\* C1: after any sequence of acquire calls the token count stays within
\* [0, burst_size].
C1_TokensInRange == tokens >= 0 /\ tokens <= burst_size * OneToken

\* C2: the number of acquire calls that have returned True by time t never
\* exceeds burst_size + requests_per_second * (t - creation time), whatever the
\* interleaving of the concurrent callers.
C2_NoOversubscription ==
  granted * OneToken <= burst_size * OneToken + (now - CreationTime)

\* both threads have been granted a token, the second after a refill, and the
\* bound is met with equality
C2_Witness ==
  /\ \A t \in Threads : acq_result[t] = "granted"
  /\ granted >= 2
  /\ now > CreationTime
  /\ granted * OneToken = burst_size * OneToken + (now - CreationTime)

\* C3: acquire(wait=True) never reports rate-limited; a False result goes only
\* to a caller that passed wait=False.
C3_WaitNeverLimited ==
  \A t \in Threads : acq_result[t] = "limited" => ~wait[t]

\* an acquire(wait=True) found less than one token, slept and was granted
C3_Witness ==
  \E t \in Threads : wait[t] /\ slept[t] /\ acq_result[t] = "granted"

\* C4: every write to the limiter's state is made by the thread that holds the
\* limiter's mutex, and the counters only grow.
LimiterWritten ==
  <<tokens, last_refill_time, last_request_time, total_requests, rate_limited_count>>'
    # <<tokens, last_refill_time, last_request_time, total_requests, rate_limited_count>>
C4_WritesUnderLock ==
  [][/\ LimiterWritten => \E t \in Threads : lock = t /\ pc'[t] # pc[t]
     /\ rate_limited_count' >= rate_limited_count
     /\ total_requests' >= total_requests]_vars

\* C5: in make_rate_limited_request every network attempt, the first and each
\* retry, is issued only after the limiter granted a token for that attempt.
C5_SendAdmitted ==
  \A t \in Threads : pc[t] = "mr_send" => acq_result[t] = "granted"

\* a retry is about to be sent after its acquire had to sleep for a token
C5_Witness ==
  \E t \in Threads :
    pc[t] = "mr_send" /\ retry_count[t] >= 1 /\ slept[t] /\ acq_result[t] = "granted"

\* C6: every price-oracle request of the collector is admitted by the limiter
\* before it is sent, so the requests sent never exceed burst_size + rate * elapsed.
C6_CollectorAdmitted ==
  /\ dex_sent <= granted
  /\ dex_sent * OneToken <= burst_size * OneToken + (now - CreationTime)

\* C7: an attempt answered with an HTTP error status other than 429 makes the
\* call fail at once: no backoff sleep, no further request.
C7_HttpErrorFailsFast ==
  \A t \in Threads : resp[t] = "httperr" =>
    pc[t] = "idle" /\ result[t] = [status |-> "raised", failure |-> "httperr"]

C10_TTLContract ==
  (got.has /\ stored[got.key].set) =>
    got.value = IF got.at - stored[got.key].at < stored[got.key].ttl
                  THEN stored[got.key].value
                  ELSE Miss

\* C11: every miss of a call wrapped by cached leaves a cache entry for its
\* key that holds the call's result, whatever that result is (None included).
C11_EveryMissStored ==
  [][\A w \in Workers :
       (w_pc[w] = "set" /\ w_pc'[w] = "idle")
         => /\ w_key[w] \in DOMAIN cache'
            /\ cache'[w_key[w]].value = w_result[w]]_vars

\* C11 (amended): a miss whose result is not None writes an entry for its key
\* holding that result and expiring ttl after the write; a miss whose result
\* is None writes nothing; a call that reads an entry that is not past its
\* expiry returns the entry's value without invoking the wrapped function.
C11_MissStored ==
  [][\A w \in Workers :
       /\ (w_pc[w] = "set" /\ w_pc'[w] = "idle")
            => IF w_result[w] # Miss
                 THEN /\ w_key[w] \in DOMAIN cache'
                      /\ cache'[w_key[w]] =
                           [value |-> w_result[w], expire_time |-> now + actual_ttl]
                 ELSE cache' = cache
       /\ (w_pc[w] = "check" /\ w_pc'[w] # "check"
             /\ w_entry[w] # NoEntry /\ now <= w_entry[w].expire_time)
            => /\ w_out'[w] = [how |-> "hit", value |-> w_entry[w].value]
               /\ invoked' = invoked]_vars

\* a miss stored a result and a later call of the same key was served from
\* the cache, the function having run once
C11_Witness ==
  \E a \in Workers, b \in Workers :
    /\ w_out[a].how = "miss" /\ w_out[a].value # Miss
    /\ w_out[b].how = "hit" /\ w_out[b].value = w_out[a].value
    /\ w_key[a] = w_key[b] /\ w_pc[a] = "idle" /\ w_pc[b] = "idle"
    /\ invoked[w_key[a]] = 1

\* C12: under any interleaving of workers calling a cached function, no call
\* fails because of the lazy eviction and no eviction deletes an entry that
\* is not past its expiry.
C12_AtomicEviction ==
  \A w \in Workers : w_out[w].how # "KeyError" /\ w_deleted[w] # "fresh"

\* C13: in fetch_all_stable_status a config whose processing fails
\* contributes no records at all (the records of the other configs are
\* returned regardless).
C13_FailedContributesNothing ==
  \A c \in StatusConfigs : (s_pc[c] = "done" /\ s_failed[c]) => s_results[c] = <<>>

\* the list the sequential path returns for config c
SeqResults(c) ==
  IF c <= s_n
    THEN BuildRecords(cfg_key(c), s_upstream[cfg_key(c)], s_cfg, s_global).results
    ELSE <<>>

Occurrences(rs, x) == Cardinality({i \in DOMAIN rs : rs[i] = x})

RECURSIVE CountIn(_, _, _)
CountIn(lists, c, x) ==
  IF c = 0 THEN 0 ELSE Occurrences(lists[c], x) + CountIn(lists, c - 1, x)

RecordsOf(lists) == UNION {{lists[c][i] : i \in DOMAIN lists[c]} : c \in StatusConfigs}

StatusDone == s_n > 0 /\ \A c \in StatusConfigs : c <= s_n => s_pc[c] = "done"

\* C14: when the pooled path of fetch_all_stable_status has returned, its
\* list holds exactly the multiset of records the sequential path returns
\* for the same configs and oracle answers.
C14_PooledEqualsSequential ==
  (StatusDone /\ ~Sequential) =>
    LET seq == [c \in StatusConfigs |-> SeqResults(c)] IN
      \A x \in RecordsOf(seq) \cup RecordsOf(s_results) :
        CountIn(s_results, s_n, x) = CountIn(seq, s_n, x)

\* C15: every record of the collector has deviation_pct = (price - anchor) /
\* anchor * 100, threshold = the global threshold when one is supplied (0
\* included) and else the config's own (or the default), and is_alert true
\* exactly when |deviation_pct| >= threshold.
C15_RecordFields ==
  \A c \in StatusConfigs : \A i \in DOMAIN s_results[c] :
    LET r == s_results[c][i] IN
      /\ r.deviation_pct.den # 0
      /\ r.deviation_pct.num * s_cfg.anchor_price
           = (r.price - s_cfg.anchor_price) * 100 * r.deviation_pct.den
      /\ r.threshold = IF s_global # NoThreshold THEN s_global
                       ELSE IF s_cfg.threshold # NoThreshold THEN s_cfg.threshold
                       ELSE DEFAULT_THRESHOLD
      /\ r.is_alert <=> (Abs(r.deviation_pct.num) * ThresholdScale
                           >= r.threshold * Abs(r.deviation_pct.den))

\* a config returned a record of each side under a global threshold of 0,
\* one of them priced at the anchor and alerting, the config's own threshold
\* being larger
C15_Witness ==
  \E c \in StatusConfigs :
    /\ Len(s_results[c]) = 2 /\ s_global = 0 /\ s_cfg.threshold = 10
    /\ s_results[c][1].name # s_results[c][2].name
    /\ \E i \in 1..2 : /\ s_results[c][i].price = s_cfg.anchor_price
                       /\ s_results[c][i].is_alert
                       /\ s_results[c][i].threshold = 0

\* the loop has visited the group of the name
Visited(name) ==
  /\ \E i \in DOMAIN statuses : statuses[i].name = name
  /\ \A i \in DOMAIN sc_pending : sc_pending[i] # name

EmittedFor(name) == \E i \in DOMAIN opps : opps[i].name = name

\* C16: find_arbitrage_opportunities emits nothing for an asset whose
\* records all lie on one chain, so every opportunity has cheap_chain
\* different from rich_chain.
C16_CrossChainOnly ==
  \A i \in DOMAIN opps :
    /\ opps[i].cheap_chain # opps[i].rich_chain
    /\ \E j, k \in DOMAIN statuses :
         /\ statuses[j].name = opps[i].name /\ statuses[k].name = opps[i].name
         /\ statuses[j].chain # statuses[k].chain

\* C17: for every emitted opportunity cheap_price is the least and
\* rich_price the greatest price among the input records of its asset name,
\* rich_price > cheap_price, and no asset name has two opportunities.
C17_MinMax ==
  /\ \A i \in DOMAIN opps :
       /\ \A j \in DOMAIN statuses :
            statuses[j].name = opps[i].name
              => /\ opps[i].cheap_price <= statuses[j].price
                 /\ statuses[j].price <= opps[i].rich_price
       /\ \E j \in DOMAIN statuses :
            statuses[j].name = opps[i].name /\ statuses[j].price = opps[i].cheap_price
       /\ \E j \in DOMAIN statuses :
            statuses[j].name = opps[i].name /\ statuses[j].price = opps[i].rich_price
       /\ opps[i].rich_price > opps[i].cheap_price
  /\ \A i, j \in DOMAIN opps : opps[i].name = opps[j].name => i = j

\* an opportunity of an asset with three records of three prices, the first
\* of them neither the cheapest nor the richest
C17_Witness ==
  \E i \in DOMAIN opps :
    LET lst == Group(opps[i].name) IN
      /\ Len(lst) = 3
      /\ Cardinality({lst[j].price : j \in DOMAIN lst}) = 3
      /\ lst[1].price > opps[i].cheap_price
      /\ lst[1].price < opps[i].rich_price

\* C18: the returned list is ordered by the net profit of the cost detail
\* that the refinement attempt left, non-increasing from first to last.
C18_Sorted ==
  sc_stage = "returned" =>
    /\ \A i \in DOMAIN opps : opps[i].cost_detail = sc_cost[opps[i].name]
    /\ \A i, j \in DOMAIN opps :
         i < j => opps[i].cost_detail.net_profit >= opps[j].cost_detail.net_profit

\* two opportunities were returned, the more profitable one (by its quote)
\* first although its asset was visited second
C18_Witness ==
  /\ sc_stage = "returned"
  /\ Len(opps) = 2
  /\ opps[1].cost_detail.net_profit > opps[2].cost_detail.net_profit
  /\ opps[1].cost_detail.net_profit \in RefinedProfits
  /\ NamesOf(statuses)[1] = opps[2].name

\* C19: a group is emitted only if the cost detail left by the refinement
\* attempt has net profit >= min_profit_usd and net margin >=
\* min_profit_rate; a group whose refined (or, under a raised flat cost,
\* base) values are below a floor is not emitted.
C19_Floors ==
  /\ \A i \in DOMAIN opps :
       /\ opps[i].cost_detail = sc_cost[opps[i].name]
       /\ opps[i].cost_detail.net_profit >= DEFAULT_MIN_PROFIT_USD
       /\ opps[i].cost_detail.net_margin >= min_profit_rate
  /\ \A name \in AssetNames :
       (/\ Visited(name)
        /\ sc_cost[name].computed
        /\ \/ sc_cost[name].net_profit < DEFAULT_MIN_PROFIT_USD
           \/ sc_cost[name].net_margin < min_profit_rate)
         => ~EmittedFor(name)

\* a visited group whose base cost detail passes both floors, whose quote
\* put the net profit below min_profit_usd, and which was not emitted
C19_Witness ==
  \E name \in AssetNames :
    LET lst == Group(name)
        base == calculate_arbitrage_cost(Cheap(lst).price, Rich(lst).price, src_gas_usd,
                  DEFAULT_DST_GAS_USD, DEFAULT_BRIDGE_FEE_USD, DEFAULT_SLIPPAGE_PCT)
    IN  /\ Visited(name)
        /\ sc_cost[name].computed
        /\ base.net_profit >= DEFAULT_MIN_PROFIT_USD /\ base.net_margin >= min_profit_rate
        /\ sc_cost[name].net_profit < DEFAULT_MIN_PROFIT_USD
        /\ ~EmittedFor(name)

\* C20: a group whose spread is below min_spread_pct, or whose cheap or rich
\* record has a known liquidity below the floor, is rejected before any cost
\* or refinement computation; unknown liquidity passes the liquidity check.
C20_Prefilter ==
  \A name \in AssetNames :
    LET lst == Group(name) IN
      (Visited(name) /\ Len(lst) >= 2 /\ Rich(lst).price > Cheap(lst).price)
        => LET cheap == Cheap(lst)
               rich == Rich(lst)
               small == (rich.price - cheap.price) * 100 * ThresholdScale
                          < DEFAULT_MIN_SPREAD_PCT * cheap.price
               low == \/ cheap.liquidity_usd # NoLiquidity
                         /\ cheap.liquidity_usd < MIN_LIQUIDITY_USD
                      \/ rich.liquidity_usd # NoLiquidity
                         /\ rich.liquidity_usd < MIN_LIQUIDITY_USD
           IN  /\ (small \/ low) => (~sc_cost[name].computed /\ ~EmittedFor(name))
               /\ (~small /\ ~low) => sc_cost[name].computed

\* one group was rejected for a known low liquidity without a cost detail,
\* another with a record of unknown liquidity went on to the cost model
C20_Witness ==
  \E a, b \in AssetNames :
    /\ Visited(a) /\ Len(Group(a)) >= 2 /\ ~sc_cost[a].computed
    /\ Rich(Group(a)).price > Cheap(Group(a)).price
    /\ Rich(Group(a)).liquidity_usd # NoLiquidity
    /\ Rich(Group(a)).liquidity_usd < MIN_LIQUIDITY_USD
    /\ Visited(b) /\ Len(Group(b)) >= 2 /\ sc_cost[b].computed
    /\ Rich(Group(b)).liquidity_usd = NoLiquidity

\* by_name[name] of the scan of another list of records
GroupIn(seq, name) == SelectSeq(seq, LAMBDA s : s.name = name)

\* the records of statuses in the order perm gives them
Reordered(perm) == [i \in DOMAIN statuses |-> statuses[perm[i]]]

\* C21: the opportunities do not depend on the order of the input records:
\* for every permutation of the records the scan was given, a group passes
\* the tests before the cost model exactly when the group of the scan does,
\* and the cheap and the rich record it picks are on the same chains with the
\* same price and liquidity, so that every returned opportunity is returned
\* with the same cheap_chain and rich_chain whatever the order
C21_OrderIndependent ==
  sc_stage = "returned" =>
    \A perm \in Permutations(DOMAIN statuses) : \A name \in AssetNames :
      LET lst == Group(name)
          other == GroupIn(Reordered(perm), name)
      IN  /\ PassesPrefilter(other) = PassesPrefilter(lst)
          /\ PassesPrefilter(lst) =>
               /\ Cheap(other) = Cheap(lst)
               /\ Rich(other) = Rich(lst)
               /\ \A i \in DOMAIN opps :
                    opps[i].name = name =>
                      /\ opps[i].cheap_chain = Cheap(other).chain
                      /\ opps[i].rich_chain = Rich(other).chain

\* a call of calculate_arbitrage_cost with positive prices has returned
CostComputed == ca_calls >= 1 /\ ca_args.src_price > 0 /\ ca_args.dst_price > 0

\* total_cost before rounding, in 1/Mills of a cent
ExactTotal(a) ==
  a.src_gas + a.dst_gas + a.bridge_fee + (trade_amount_usd * a.slippage_pct * Mills) \div 100

\* theoretical_profit before rounding is ExactTheo(a) / (a.src_price * Mills) cents
ExactTheo(a) == 100 * Mills * trade_amount_usd * (a.dst_price - a.src_price)

\* C22 as claimed: the returned total_cost is the sum of the two gas costs,
\* the bridge fee and the slippage loss, the returned net_profit is the
\* returned theoretical profit less the returned total_cost, net_margin is
\* net_profit / trade size * 100, and raising one flat cost by d lowers the
\* returned net_profit by exactly d and leaves the theoretical profit alone
C22_ExactIdentities ==
  CostComputed =>
    /\ ca_detail.total_cost * Mills = ExactTotal(ca_args)
    /\ ca_detail.net_profit = ca_detail.theoretical_profit - ca_detail.total_cost
    /\ ca_detail.net_margin * trade_amount_usd = ca_detail.net_profit * 1000
    /\ ca_raised.field # "none" =>
         /\ (ca_prev.net_profit - ca_detail.net_profit) * Mills = ca_raised.by
         /\ ca_detail.theoretical_profit = ca_prev.theoretical_profit

\* C22: for positive prices every returned field is the value of its
\* formula rounded to the cent (net_margin to a thousandth of a percent):
\* total_cost of gas_src + gas_dst + bridge_fee + trade * slippage_pct / 100,
\* theoretical profit of trade * spread_pct / 100, net_profit of the unrounded
\* theoretical profit less the unrounded total cost; the returned net_profit
\* is within one cent of the returned theoretical profit less the returned
\* total_cost, and raising one flat cost by d leaves the theoretical profit
\* unchanged and lowers the returned net_profit by d to within one cent.  For
\* a price that is not positive every field is zero.
C22_RoundedIdentities ==
  /\ CostComputed =>
       /\ ca_detail.total_cost = Round(ExactTotal(ca_args), Mills)
       /\ ca_detail.theoretical_profit = Round(ExactTheo(ca_args), ca_args.src_price * Mills)
       /\ ca_detail.net_profit =
            Round(ExactTheo(ca_args) - ExactTotal(ca_args) * ca_args.src_price,
                  ca_args.src_price * Mills)
       /\ ca_detail.net_margin =
            MarginOf(ExactTheo(ca_args) - ExactTotal(ca_args) * ca_args.src_price,
                     ca_args.src_price * Mills)
       /\ Abs(ca_detail.net_profit - (ca_detail.theoretical_profit - ca_detail.total_cost)) <= 1
       /\ ca_raised.field # "none" =>
            /\ ca_detail.theoretical_profit = ca_prev.theoretical_profit
            /\ Abs((ca_prev.net_profit - ca_detail.net_profit) * Mills - ca_raised.by) <= Mills
  /\ (ca_calls >= 1 /\ ~CostComputed) => ca_detail = ZeroDetail

\* a second call with the source gas raised by 0.4 cent returned a positive
\* net_profit that is not the difference of the two other returned fields
C22_Witness ==
  /\ CostComputed
  /\ ca_raised = [field |-> "src_gas", by |-> 4]
  /\ ca_args.bridge_fee > 0
  /\ ca_detail.net_profit > 0
  /\ ca_detail.net_profit # ca_detail.theoretical_profit - ca_detail.total_cost

\* the sign of spread_pct - slippage_pct of the arguments a
EdgeOf(a) == (a.dst_price - a.src_price) * 10000 - a.slippage_pct * a.src_price

\* fixed_cost * 100 / (spread_pct - slippage_pct) of the arguments a, rounded
\* to the cent
BreakEvenOf(a) ==
  LET g == GCD(10000 * a.src_price, Mills * EdgeOf(a))
  IN  Round((a.src_gas + a.dst_gas + a.bridge_fee) * ((10000 * a.src_price) \div g),
            (Mills * EdgeOf(a)) \div g)

\* C23 as claimed: the break-even size is reported, as fixed_cost * 100 /
\* (spread_pct - slippage_pct), exactly when spread_pct - slippage_pct is
\* positive, whatever the fixed costs, zero included, and is None exactly
\* when that denominator is zero or negative
C23_WheneverEdgePositive ==
  CostComputed =>
    /\ EdgeOf(ca_args) > 0 => ca_detail.min_trade_amount = BreakEvenOf(ca_args)
    /\ EdgeOf(ca_args) <= 0 => ca_detail.min_trade_amount = NoAmount

\* C23: the break-even size is reported, as fixed_cost * 100 / (spread_pct -
\* slippage_pct) rounded to the cent, exactly when spread_pct - slippage_pct
\* is positive and the fixed costs are positive; it is None when the
\* denominator is zero or negative and also when the fixed costs are zero
C23_BreakEven ==
  CostComputed =>
    LET fixed == ca_args.src_gas + ca_args.dst_gas + ca_args.bridge_fee
    IN  /\ (EdgeOf(ca_args) > 0 /\ fixed > 0) =>
             /\ ca_detail.min_trade_amount = BreakEvenOf(ca_args)
             /\ ca_detail.min_trade_amount # NoAmount
        /\ (EdgeOf(ca_args) <= 0 \/ fixed = 0) => ca_detail.min_trade_amount = NoAmount

\* a call with zero fixed costs and a positive denominator reported no
\* break-even size, and the call after a flat cost was raised reported one
C23_Witness ==
  /\ CostComputed
  /\ EdgeOf(ca_args) > 0
  /\ ca_raised.field # "none"
  /\ ca_prev.min_trade_amount = NoAmount
  /\ ca_detail.min_trade_amount > 0

\* the failure paths of refine_cost_with_lifi: a chain without chainId, a
\* missing token address, one chain, one token, a price that is not
\* positive, no fromAddress, a failed or raising request, a malformed answer
RefineFails(in) ==
  \/ in.src_chain \notin {"bsc", "arbitrum"}
  \/ in.dst_chain \notin {"bsc", "arbitrum"}
  \/ in.src_token = ""
  \/ in.dst_token = ""
  \/ in.src_chain = in.dst_chain
  \/ in.src_token \in {"0xAA", "0xaa"} /\ in.dst_token \in {"0xAA", "0xaa"}
  \/ in.src_price <= 0
  \/ ~in.from_address
  \/ in.http # "ok"
  \/ in.shape # "quote"

\* C24: refine_cost_with_lifi never raises, and on every failure path it
\* returns a cost detail in which every field of the base model has the
\* value it had in the base detail it was given, with a non-empty skip reason
\* and none of the marks of a refinement
C24_FailureKeepsBase ==
  rf_stage = "returned" =>
    /\ ~rf_out.raised
    /\ RefineFails(rf_in) =>
         /\ \A f \in BaseFields : rf_out[f] = BaseOf(rf_in)[f]
         /\ rf_out.skip_reason # ""
         /\ ~rf_out.lifi_source
         /\ ~rf_out.complete

\* a quote that arrived but broke the processing midway was answered by the
\* base detail and a skip reason
C24_Witness ==
  /\ rf_stage = "returned"
  /\ rf_in.http = "ok"
  /\ rf_in.from_address
  /\ rf_in.shape = "bad_item"
  /\ rf_in.src_chain # rf_in.dst_chain
  /\ rf_out.skip_reason = "processing error"
  /\ rf_out.net_profit = BaseOf(rf_in).net_profit

\* the refinement succeeded
RefineSucceeded == rf_stage = "returned" /\ rf_out.lifi_source

\* the components of the total shown in the returned detail, in cents
ShownCosts ==
  rf_out.src_gas + rf_out.dst_gas + rf_out.bridge_fee + rf_out.slippage_loss
    + Zero(rf_out.other_fees)

\* C25 as claimed: after a successful refinement the returned net_profit is
\* the returned theoretical profit less the returned total_cost, and when
\* the quote itemizes costs the returned total_cost is the sum of the gas,
\* bridge fee and slippage components shown in the result plus the other fees
C25_ExactSums ==
  RefineSucceeded =>
    /\ rf_out.net_profit = rf_out.theoretical_profit - rf_out.total_cost
    /\ rf_out.complete => rf_out.total_cost = ShownCosts

\* C25: after a successful refinement the returned net_profit is within one
\* cent of the returned theoretical profit less the returned total_cost;
\* when costs are itemized the returned total_cost is within three cents of
\* the sum of the shown source gas, destination gas, bridge fee, slippage
\* and other fees; and each of the gas and bridge components is the quote's
\* value rounded to the cent and tagged where the quote (or the gas price
\* service) gives it, else the untagged base value
C25_RoundedSums ==
  RefineSucceeded =>
    /\ Abs(rf_out.net_profit - (rf_out.theoretical_profit - rf_out.total_cost)) <= 1
    /\ rf_out.complete => Abs(rf_out.total_cost - ShownCosts) <= 3
    /\ rf_out.src_gas_lifi = (rf_in.q_src_gas # NoAmount \/ rf_in.gas_api # NoAmount)
    /\ rf_out.src_gas =
         IF rf_in.q_src_gas # NoAmount THEN Round(rf_in.q_src_gas, Mills)
         ELSE IF rf_in.gas_api # NoAmount THEN Round(rf_in.gas_api, Mills)
         ELSE BaseOf(rf_in).src_gas
    /\ rf_out.bridge_fee_lifi = (rf_in.q_bridge_fee # NoAmount)
    /\ rf_out.bridge_fee =
         IF rf_in.q_bridge_fee # NoAmount THEN Round(rf_in.q_bridge_fee, Mills)
         ELSE BaseOf(rf_in).bridge_fee
    /\ rf_out.other_fees =
         IF rf_in.q_other_fees > 0 THEN Round(rf_in.q_other_fees, Mills) ELSE NoAmount
    /\ (~rf_out.slippage_lifi) => rf_out.slippage_loss = BaseOf(rf_in).slippage_loss

\* a quote with itemized gas, bridge fee and other fees was refined, and the
\* returned total is not the sum of the shown components
C25_Witness ==
  /\ RefineSucceeded
  /\ rf_out.complete
  /\ rf_out.src_gas_lifi /\ rf_out.bridge_fee_lifi /\ rf_out.other_fees # NoAmount
  /\ rf_out.total_cost # ShownCosts

\* the symbol has a known official address for the chain
HasOfficial(symbol, chain) ==
  \/ symbol \in {"USDT", "DAI"} /\ chain = "ethereum"
  \/ symbol = "USDT" /\ chain = "bsc"

\* C26: check_token_legitimacy raises the risk to danger on address grounds
\* only when the symbol of the token has a known official address for the
\* chain of the pair and the address of the token differs from it; a
\* recognised stable symbol on a chain with no known official address is
\* reported as unverifiable and is not warned about as fake, whatever its
\* address, so that the pair is dangerous only if its price is
C26_DangerOnlyOnMismatch ==
  lg_stage = "returned" =>
    /\ \A t \in lg_out.fake : HasOfficial(t[1], lg_in.chain)
    /\ \A t \in {<<lg_in.base_symbol, lg_in.base_address>>,
                 <<lg_in.quote_symbol, lg_in.quote_address>>} :
         (t[1] \in {"USDT", "DAI"} /\ ~HasOfficial(t[1], lg_in.chain)) =>
           t \in lg_out.unverifiable
    /\ (\A t \in {<<lg_in.base_symbol, lg_in.base_address>>,
                  <<lg_in.quote_symbol, lg_in.quote_address>>} :
          ~HasOfficial(t[1], lg_in.chain)) =>
         (lg_out.risk_level = "danger" => lg_out.price_risk = "danger")

\* the configs whose _fetch_single_stable_status has been started
Started == {c \in StatusConfigs : s_pc[c] # "queued"}

C28_RetryAndNoData ==
  \A c \in Configs :
    /\ cfg_sent[c] <= 3
    /\ cfg_pc[c] = "pool_sleep" =>
         /\ cfg_last[c] \in {"timeout", "connerr", "http429", "other"}
         /\ cfg_sent[c] < 3
    /\ cfg_last[c] \in {"httperr", "nodata"} => cfg_pc[c] = "done"
    /\ cfg_pc[c] \in {"liq", "tokens"} => cfg_last[c] = "data"
    /\ (cfg_pc[c] = "done" /\ cfg_last[c] # "data") => cfg_records[c] = 0
    /\ (cfg_pc[c] = "pool" /\ cfg_sent[c] > 0) =>
         cfg_last[c] \in {"timeout", "connerr", "http429", "other"}

\* a config used up its three attempts on rate limiting and is finished
\* without a record, and another returned at once on an HTTP error
C28_Witness ==
  /\ \E c \in Configs :
       cfg_pc[c] = "done" /\ cfg_sent[c] = 3 /\ cfg_last[c] = "http429" /\ cfg_records[c] = 0
  /\ \E c \in Configs :
       cfg_pc[c] = "done" /\ cfg_sent[c] = 1 /\ cfg_last[c] = "httperr"

\* the cycle of the monitor loop is over
CycleOver == m_pc = "fetch" /\ m_cycle > 0

\* C29: in every cycle of the monitor loop a depeg notification is sent for
\* a key exactly when its record is in alert and was not in alert in the
\* previous cycle that observed the key, the alert state of every record of
\* the cycle is recorded, and the arbitrage scan of the cycle runs.
C29_NotifyOnTurn ==
  CycleOver =>
    \A i \in 1..Len(m_statuses) :
      LET s == m_statuses[i] IN
        /\ key_nc(s) \in m_notified <=> (s.is_alert /\ ~m_before[key_nc(s)])
        /\ key_nc(s) \in DOMAIN last_alert_state
        /\ last_alert_state[key_nc(s)] = s.is_alert
        /\ m_scanned

\* C30: at most MAX_DAILY_SENDS messages of one Beijing day are accepted by
\* ServerChan, whatever the users and the other log entries are, and every
\* Telegram and DingTalk send that is due is made.
C30_DailyQuota ==
  /\ sc_sent <= MAX_DAILY_SENDS
  /\ sn_last.tg_tried = sn_last.tg_due
  /\ sn_last.dt_tried = sn_last.dt_due

====
